---------------------------- MODULE Spec2Model ----------------------------
(***************************************************************************)
(* A model of the pull-request review pipeline of backend/:                *)
(*   - ReviewOrchestrator.review_pr (orchestrator.py): the per-file        *)
(*     fan-out to five analyzers, the merge of their findings and the      *)
(*     aggregated review (summarization result or local fallback);         *)
(*   - DiffParser.parse_diff (diff_parser.py): the scan of a unified diff  *)
(*     into FileChange records.                                            *)
(* Text is modelled as a sequence of one-character strings, so that        *)
(* prefixes, emptiness and splitting are computed and not assumed.         *)
(***************************************************************************)
EXTENDS Integers, Sequences, FiniteSets, TLC

VARIABLES
    \* ---- ReviewOrchestrator.review_pr ----
    files,          \* the argument of review_pr: a sequence of FileChange
    pc,             \* position of review_pr: "loop", "fanout", "narrative", "returned", "raised"
    idx,            \* index (1-based) of the file the for loop is at
    running,        \* analyzers of the current file whose future has not completed
    results,        \* the dict `results` of _analyze_file: analyzer name -> result
    all_analyses,   \* the dict `all_analyses`: analyzer name -> sequence of results
    events,         \* number of analyzer calls so far that raised or reported findings
    produced,       \* history: <<file index, analyzer>> -> what that future produced
    all_issues,     \* the merged finding list of review_pr (empty before the merge)
    llm_result,     \* what chain.invoke of the aggregator produced (NotCalled before)
    review,         \* the AggregatedReview review_pr returns (None before)
    request,        \* the dict `context` given to chain.invoke (None before)
    context,        \* the dict `context` of _analyze_file (None outside the call)
    received,       \* history: <<file index, analyzer>> -> the context submitted
    invoked,        \* history: <<file index, analyzer>> -> number of calls submitted
                    \* (<<0, "aggregator">> for chain.invoke of the aggregator)
    \* ---- DiffParser.parse_diff ----
    diff_content,   \* the argument of parse_diff: a text
    ppc,            \* position of parse_diff: "scan", "done"
    lines,          \* diff_content.split('\n')
    pos,            \* index (1-based) of the next line of the for loop
    parsed,         \* the list `files` of parse_diff
    current_file,   \* the accumulator dict (None when no section is open)
    current_patch,  \* the buffered patch body lines
    \* ---- DiffParser.extract_changed_lines ----
    patch,          \* the argument of extract_changed_lines: a text
    epc,            \* position of extract_changed_lines: "scan", "done"
    elines,         \* patch.split('\n')
    epos,           \* index (1-based) of the next line of the for loop
    changed_lines,  \* the list `changed_lines`
    current_line_num, \* the running line counter
    \* ---- GitHubClient.fetch_pr_files and the /review endpoint ----
    files_data,     \* the outcome of response.json(): a sequence of dicts, or an exception
    gpc,            \* position: "fetch", "fetched", "review", "rejected"
    gpos,           \* index (1-based) of the next dict of the for loop
    file_changes,   \* the list `file_changes`
    \* ---- DiffParser.group_changes_by_function ----
    group_patch,    \* the argument `patch` of group_changes_by_function: a text
    language,       \* the argument `language`
    fpc,            \* position: "lookup", "scan", "done"
    flines,         \* patch.split('\n')
    fpos,           \* index (1-based) of the next line of the for loop
    functions,      \* the list `functions`
    current_function, \* the dict the loop appends to: None, or the last of functions
    \* ---- main.py: POST /review/async and its background task ----
    review_results, \* the module-level dict `review_results`: job id -> entry
    task,           \* job id -> the background task process_review_async of that job
    reply,          \* what the last GET /review/status/{job_id} answered (None before)
    \* ---- rev.py: parse_review_text ----
    review_text,    \* the argument `text` of parse_review_text: a report text
    rpc,            \* position of parse_review_text: "scan", "done"
    rlines,         \* text.split('\n')
    rpos,           \* index (1-based) of the next line of the for loop
    sections,       \* the dict `sections`
    current_section, \* the key of the section in force ("None" before the first)
    current_blocker \* the dict `current_blocker`

ovars == <<files, pc, idx, running, results, all_analyses, events, produced,
           all_issues, llm_result, review, request, invoked, context, received>>
pvars == <<diff_content, ppc, lines, pos, parsed, current_file, current_patch>>
evars == <<patch, epc, elines, epos, changed_lines, current_line_num>>
gvars == <<files_data, gpc, gpos, file_changes>>
fvars == <<group_patch, language, fpc, flines, fpos, functions, current_function>>
jvars == <<review_results, task, reply>>
rvars == <<review_text, rpc, rlines, rpos, sections, current_section, current_blocker>>
wvars == <<fvars, jvars, rvars>>
vars == <<ovars, pvars, evars, gvars, wvars>>

-----------------------------------------------------------------------------
(* Bounds of the model *)

\* longest file list given to review_pr
MaxFiles == 2
\* most analyzer calls of one review that raise or report findings
MaxEvents == 2
\* most lines of a diff text given to parse_diff
MaxLines == 3

-----------------------------------------------------------------------------
(* Values shared by both components *)

\* Python's None; a record, so that it compares with every result record
None == [none |-> TRUE]

\* an exception raised by a call, as the value the call produced
Raise == [raise |-> TRUE]

NotCalled == [not_called |-> TRUE]

\* the outcome of an evaluation that may raise: a value, or an exception
Returned(v) == [raised |-> FALSE, value |-> v]
Raised == [raised |-> TRUE, value |-> <<>>]

Digit(i) == <<"0", "1", "2", "3", "4", "5", "6", "7", "8", "9">>[i + 1]

\* s[:n] of Python
Prefix(s, n) == SubSeq(s, 1, IF Len(s) < n THEN Len(s) ELSE n)

RECURSIVE Flatten(_)
\* the concatenation of a sequence of sequences
Flatten(ss) == IF ss = <<>> THEN <<>> ELSE Head(ss) \o Flatten(Tail(ss))

-----------------------------------------------------------------------------
(* models.py *)

Severities == {"critical", "high", "medium", "low", "info"}

Categories == {"logic", "security", "performance", "readability",
               "best_practices", "testing", "documentation"}

\* a ReviewIssue
Issue(cat, sev, fname, snippet) ==
    [category |-> cat, severity |-> sev, line_number |-> 1, filename |-> fname,
     code_snippet |-> snippet, issue_description |-> <<"d">>,
     recommendation |-> "fix", reasoning |-> "why"]

\* the roster, in the order of the keys of all_analyses
Agents == <<"logic", "security", "performance", "readability", "testing">>
AgentSet == {Agents[i] : i \in 1..Len(Agents)}

\* the Finding-bearing field of each analyzer's output class
IssueField(a) ==
    CASE a = "logic" -> "issues"
      [] a = "security" -> "vulnerabilities"
      [] a = "performance" -> "bottlenecks"
      [] a = "readability" -> "style_issues"
      [] a = "testing" -> "test_quality_issues"

LogicAnalysisOutput(iss) ==
    [issues |-> iss, potential_bugs |-> <<>>, edge_cases_missing |-> <<>>]
SecurityAnalysisOutput(iss, score) ==
    [vulnerabilities |-> iss, security_score |-> score, critical_issues |-> <<>>]
PerformanceAnalysisOutput(iss) ==
    [bottlenecks |-> iss, optimization_suggestions |-> <<>>, complexity_warnings |-> <<>>]
ReadabilityAnalysisOutput(iss, score) ==
    [style_issues |-> iss, naming_suggestions |-> <<>>, documentation_needed |-> <<>>,
     readability_score |-> score]
TestingAnalysisOutput(iss) ==
    [missing_tests |-> <<>>, test_coverage_concerns |-> <<>>, test_quality_issues |-> iss]

\* hasattr(obj, name) for a result object
HasAttr(obj, name) == name \in DOMAIN obj

-----------------------------------------------------------------------------
(* The inputs of review_pr and what the external capabilities may produce *)

\* the statuses of the file lists explored: review_pr only tests a status
\* against 'deleted', so one status that is analysed and the one that is skipped
Statuses == {"modified", "deleted"}

FileName(i) ==
    IF i % 2 = 0 THEN <<"M", "k", Digit(i)>>
    ELSE <<"f", Digit(i), ".", "d", ".", "p", "y">>

\* the i-th FileChange of a file list
FileChangeOf(i, status) ==
    [filename |-> FileName(i), additions |-> 1, deletions |-> 1,
     patch |-> <<"@", "@", " ", "+", "1", " ", "@", "@", "\n", "-", "a", "\n",
                 "+", "x", "\n", " ", "c">>,
     status |-> status]

\* further statuses a FileChange may carry (status is any str); a list holds
\* at most one file of such a status, next to deleted files only
OtherStatuses == {"added", "removed"}

StatusLists(n) ==
    [1..n -> Statuses]
    \cup {st \in [1..n -> Statuses \cup OtherStatuses] :
             \E i \in 1..n : /\ st[i] \in OtherStatuses
                             /\ \A j \in (1..n) \ {i} : st[j] = "deleted"}

FileLists ==
    UNION {{[i \in 1..n |-> FileChangeOf(i, st[i])] : st \in StatusLists(n)}
           : n \in 0..MaxFiles}

\* cap of critical_blockers in the fallback review
BlockerCap == 10
\* cap of all_issues in the fallback review
AllIssuesCap == 50

\* a long list of findings: more blockers than BlockerCap, more findings than
\* AllIssuesCap
ManyIssues(fname) ==
    [i \in 1..(AllIssuesCap + 1) |->
        Issue("performance", IF i <= BlockerCap + 1 THEN "high" ELSE "low",
              fname, <<"x">>)]

\* the findings analyzer a reports for the file named fname, when it reports
\* any; the second finding of readability is also the finding of testing
FoundIssues(a, fname) ==
    CASE a = "logic" -> <<Issue("logic", "critical", fname, <<"x">>)>>
      [] a = "security" -> <<Issue("security", "high", fname, <<"x">>),
                             Issue("security", "low", fname, <<"y">>)>>
      [] a = "performance" -> ManyIssues(fname)
      [] a = "readability" -> <<Issue("readability", "low", fname, <<"x">>),
                                Issue("testing", "medium", fname, <<"x">>)>>
      [] a = "testing" -> <<Issue("testing", "medium", fname, <<"x">>)>>

\* an instance of analyzer a's output class
OutputOf(a, iss, score) ==
    CASE a = "logic" -> LogicAnalysisOutput(iss)
      [] a = "security" -> SecurityAnalysisOutput(iss, score)
      [] a = "performance" -> PerformanceAnalysisOutput(iss)
      [] a = "readability" -> ReadabilityAnalysisOutput(iss, score)
      [] a = "testing" -> TestingAnalysisOutput(iss)

\* what analyze returns when its chain fails: the declared empty default
DefaultOutput(a) == OutputOf(a, <<>>, 50)

\* what the future of analyzer a may produce for the file named fname
AgentOutcomes(a, fname) ==
    {Raise, DefaultOutput(a), OutputOf(a, FoundIssues(a, fname), 80)}

-----------------------------------------------------------------------------
(* orchestrator.py: the merge, the tallies and the disposition *)

\* mutant of CollectGuard: the guard left out, every entry is read
CollectGuardMissing(analysis, field) == TRUE

\* `if analysis and hasattr(analysis, field)` of _collect_all_issues
CollectGuard(analysis, field) == analysis # None /\ HasAttr(analysis, field)

\* the findings one analyzer's sequence contributes; Raised when an attribute
\* is read from an object that lacks it (AttributeError)
IssuesOfAgent(list, field) ==
    LET kept == SelectSeq(list, LAMBDA an : CollectGuard(an, field))
    IN IF \E i \in 1..Len(kept) : ~HasAttr(kept[i], field)
       THEN Raised
       ELSE Returned(Flatten([i \in 1..Len(kept) |-> kept[i][field]]))

\* a list without the later occurrences of a value that occurs before
Distinct(s) ==
    LET keep == {i \in 1..Len(s) : \A j \in 1..(i - 1) : s[j] # s[i]}
    IN [k \in 1..Cardinality(keep) |->
           s[CHOOSE p \in keep : Cardinality({q \in keep : q < p}) = k - 1]]

\* mutant of CollectAllIssues: a finding that was already collected is left out
CollectAllIssuesDistinct(analyses) ==
    LET per == [k \in 1..Len(Agents) |->
                   IssuesOfAgent(analyses[Agents[k]], IssueField(Agents[k]))]
    IN IF \E k \in 1..Len(Agents) : per[k].raised THEN Raised
       ELSE Returned(Distinct(Flatten([k \in 1..Len(Agents) |-> per[k].value])))

\* _collect_all_issues: analyzer by analyzer in the order of the five loops,
\* and within one analyzer in the order of its sequence
CollectAllIssues(analyses) ==
    LET per == [k \in 1..Len(Agents) |->
                   IssuesOfAgent(analyses[Agents[k]], IssueField(Agents[k]))]
    IN IF \E k \in 1..Len(Agents) : per[k].raised THEN Raised
       ELSE Returned(Flatten([k \in 1..Len(Agents) |-> per[k].value]))

IsBlocker(issue) == issue.severity \in {"critical", "high"}

\* the list comprehension critical_blockers
CriticalBlockers(found) == SelectSeq(found, IsBlocker)

\* the dict the loop `summary_by_category[category] =
\* summary_by_category.get(category, 0) + 1` leaves: a key for every category
\* that occurs, counted once per finding of the list
SummaryByCategory(found) ==
    [c \in {found[i].category : i \in 1..Len(found)} |->
        Cardinality({i \in 1..Len(found) : found[i].category = c})]

\* the if/elif chain that determines approval_status
ApprovalStatus(found, critical_blockers) ==
    IF \E i \in 1..Len(found) : found[i].severity = "critical"
    THEN "CHANGES_REQUESTED"
    ELSE IF critical_blockers # <<>> THEN "CHANGES_REQUESTED"
    ELSE IF found # <<>> THEN "COMMENTED"
    ELSE "APPROVED"

\* mutant of InsightGuard: the guard left out, every entry is read
InsightGuardMissing(an, attr) == TRUE

\* `if a and hasattr(a, attr)` of _summarize_agent_insights
InsightGuard(an, attr) == an # None /\ HasAttr(an, attr)

\* the list `scores`; Raised when the attribute is read from an object lacking it
Scores(list, attr) ==
    LET kept == SelectSeq(list, LAMBDA an : InsightGuard(an, attr))
    IN IF \E i \in 1..Len(kept) : ~HasAttr(kept[i], attr)
       THEN Raised
       ELSE Returned([i \in 1..Len(kept) |-> kept[i][attr]])

RECURSIVE Sum(_)
Sum(s) == IF s = <<>> THEN 0 ELSE Head(s) + Sum(Tail(s))

\* one entry of `insights`: the average as the pair (sum, count)
Insight(label, scores) ==
    IF scores = <<>> THEN <<>>
    ELSE <<[label |-> label, total |-> Sum(scores), count |-> Len(scores)]>>

\* _summarize_agent_insights
SummarizeAgentInsights(analyses) ==
    LET sec == Scores(analyses["security"], "security_score")
        rd == Scores(analyses["readability"], "readability_score")
    IN IF sec.raised \/ rd.raised THEN Raised
       ELSE Returned(Insight("Security Score", sec.value)
                     \o Insight("Readability Score", rd.value))

\* the findings a result object holds, whatever its class
IssuesIn(r) ==
    UNION {{r[f][i] : i \in 1..Len(r[f])} :
           f \in {IssueField(a) : a \in AgentSet} \cap DOMAIN r}

\* any('security' in str(a) for a in analyses.values()): the text of a list
\* of results mentions security when a result has a security_score field or
\* holds a finding of category security
MentionsSecurity(analyses) ==
    \E a \in AgentSet : \E i \in 1..Len(analyses[a]) :
        LET r == analyses[a][i]
        IN r # None /\ (HasAttr(r, "security_score")
                         \/ \E issue \in IssuesIn(r) : issue.category = "security")

\* the findings serialized into the request: `all_issues[:15]`
DetailCap == 15
\* the characters of a code snippet serialized: `issue.code_snippet[:200]`
SnippetCap == 200

\* one entry of issues_detail: "Issue {i+1}:" followed by the eight fields,
\* the snippet cut to its first SnippetCap characters, 'N/A' when it is empty
IssueDetail(i, issue) ==
    [number |-> i,
     category |-> issue.category,
     severity |-> issue.severity,
     filename |-> issue.filename,
     line_number |-> issue.line_number,
     code_snippet |-> IF issue.code_snippet # <<>>
                      THEN SubSeq(issue.code_snippet, 1,
                                  IF Len(issue.code_snippet) < SnippetCap
                                  THEN Len(issue.code_snippet) ELSE SnippetCap)
                      ELSE <<"N", "/", "A">>,
     issue_description |-> issue.issue_description,
     recommendation |-> issue.recommendation,
     reasoning |-> issue.reasoning]

\* `issues_detail`: the entries of the first DetailCap findings, in order
IssuesDetail(found) ==
    [i \in 1..(IF Len(found) < DetailCap THEN Len(found) ELSE DetailCap) |->
        IssueDetail(i, found[i])]

\* mutant of AggregatorContext: the counts are taken over the serialized
\* findings only
AggregatorContextOfDetail(found, analyses) ==
    LET shown == SubSeq(found, 1, IF Len(found) < DetailCap THEN Len(found) ELSE DetailCap)
    IN [total_issues |-> Len(shown),
        critical_count |-> Len(CriticalBlockers(shown)),
        category_summary |-> SummaryByCategory(shown),
        issues_detail |-> IssuesDetail(found),
        agent_insights |-> SummarizeAgentInsights(analyses).value,
        approval_status |-> ApprovalStatus(found, CriticalBlockers(found))]

\* the dict `context` handed to chain.invoke
AggregatorContext(found, analyses) ==
    [total_issues |-> Len(found),
     critical_count |-> Len(CriticalBlockers(found)),
     category_summary |-> SummaryByCategory(found),
     issues_detail |-> IssuesDetail(found),
     agent_insights |-> SummarizeAgentInsights(analyses).value,
     approval_status |-> ApprovalStatus(found, CriticalBlockers(found))]

\* mutant of FallbackReview: the tally is taken over the capped all_issues
FallbackReviewTallyCapped(found, analyses) ==
    [overall_assessment |-> "Review completed with automated analysis.",
     approval_status |-> ApprovalStatus(found, CriticalBlockers(found)),
     critical_blockers |-> Prefix(CriticalBlockers(found), BlockerCap),
     all_issues |-> Prefix(found, AllIssuesCap),
     strengths |-> <<"Code changes submitted">>
                   \o (IF MentionsSecurity(analyses) THEN <<"High security score">>
                       ELSE <<>>),
     summary_by_category |-> SummaryByCategory(Prefix(found, AllIssuesCap)),
     priority_actions |-> <<"Review all flagged issues",
                            "Address critical blockers first",
                            "Improve test coverage">>]

\* the AggregatedReview built in the except branch
FallbackReview(found, analyses) ==
    [overall_assessment |-> "Review completed with automated analysis.",
     approval_status |-> ApprovalStatus(found, CriticalBlockers(found)),
     critical_blockers |-> Prefix(CriticalBlockers(found), BlockerCap),
     all_issues |-> Prefix(found, AllIssuesCap),
     strengths |-> <<"Code changes submitted">>
                   \o (IF MentionsSecurity(analyses) THEN <<"High security score">>
                       ELSE <<>>),
     summary_by_category |-> SummaryByCategory(found),
     priority_actions |-> <<"Review all flagged issues",
                            "Address critical blockers first",
                            "Improve test coverage">>]

\* the validation of one returned ReviewIssue: it raises ValueError unless this holds
ValidIssue(issue) ==
    issue.filename # <<>> /\ issue.code_snippet # <<>> /\ issue.issue_description # <<>>

\* whether the two validation loops over a returned review raise
ValidationRaises(result) ==
    \/ \E i \in 1..Len(result.critical_blockers) : ~ValidIssue(result.critical_blockers[i])
    \/ \E i \in 1..Len(result.all_issues) : ~ValidIssue(result.all_issues[i])

\* the try/except of _generate_aggregated_review, given what chain.invoke
\* produced (a schema-valid AggregatedReview, or Raise)
GenerateAggregatedReview(found, analyses, out) ==
    IF out = Raise THEN FallbackReview(found, analyses)
    ELSE IF ValidationRaises(out) THEN FallbackReview(found, analyses)
    ELSE out

-----------------------------------------------------------------------------
(* What the summarization capability may return *)

\* a schema-valid AggregatedReview as the aggregator chain parses it
LlmReview(status, blockers, issues, summary) ==
    [overall_assessment |-> "The change is reviewed.",
     approval_status |-> status,
     critical_blockers |-> blockers,
     all_issues |-> issues,
     strengths |-> <<"Clear naming">>,
     summary_by_category |-> summary,
     priority_actions |-> <<"Fix the blockers">>]

\* what chain.invoke of the aggregator may produce: an exception (transport
\* error or schema violation), a review that restates the local data, or
\* reviews whose content the model service chose freely (the last two with a
\* finding whose code_snippet, or whose recommendation and reasoning, is empty)
AggregatorOutcomes(found) ==
    {Raise,
     LlmReview(ApprovalStatus(found, CriticalBlockers(found)),
               CriticalBlockers(found), found, SummaryByCategory(found)),
     LlmReview("APPROVED", <<>>, <<>>, [k \in {} |-> 0]),
     LlmReview("CHANGES_REQUESTED",
               <<Issue("security", "critical", FileName(1), <<"x">>)>>,
               <<Issue("security", "critical", FileName(1), <<"x">>)>>,
               [k \in {"security"} |-> 1]),
     LlmReview("COMMENTED", <<>>,
               <<Issue("logic", "high", FileName(1), <<"x">>)>>,
               [k \in {"logic"} |-> 2]),
     LlmReview("COMMENTED", <<>>,
               <<Issue("logic", "low", FileName(1), <<>>)>>,
               [k \in {"logic"} |-> 1]),
     LlmReview("COMMENTED", <<>>,
               <<[Issue("logic", "low", FileName(1), <<"x">>)
                     EXCEPT !.recommendation = "", !.reasoning = ""]>>,
               [k \in {"logic"} |-> 1])}

-----------------------------------------------------------------------------
(* diff_parser.py: text helpers *)

NL == "\n"

\* the positions of the separator in a text
SepPositions(text) == {i \in 1..Len(text) : text[i] = NL}

\* the k-th smallest element of a set of positions
KthPosition(S, k) == CHOOSE p \in S : Cardinality({q \in S : q < p}) = k - 1

\* text.split('\n'): one more piece than there are separators
Split(text) ==
    LET seps == SepPositions(text)
        n == Cardinality(seps) + 1
    IN [k \in 1..n |->
           SubSeq(text,
                  IF k = 1 THEN 1 ELSE KthPosition(seps, k - 1) + 1,
                  IF k = n THEN Len(text) ELSE KthPosition(seps, k) - 1)]

RECURSIVE Join(_)
\* '\n'.join(pieces)
Join(pieces) ==
    IF pieces = <<>> THEN <<>>
    ELSE IF Len(pieces) = 1 THEN pieces[1]
    ELSE pieces[1] \o <<NL>> \o Join(Tail(pieces))

\* line.startswith(prefix)
StartsWith(line, prefix) ==
    /\ Len(line) >= Len(prefix)
    /\ SubSeq(line, 1, Len(prefix)) = prefix

DiffGitPrefix == <<"d", "i", "f", "f", " ", "-", "-", "g", "i", "t">>
NewFilePrefix == <<"n", "e", "w", " ", "f", "i", "l", "e">>
DeletedFilePrefix == <<"d", "e", "l", "e", "t", "e", "d", " ", "f", "i", "l", "e">>
Unknown == <<"u", "n", "k", "n", "o", "w", "n">>

\* re.search(r'b/(.+)$', line): the leftmost "b/" that at least one
\* character follows; group(1) is the rest of the line; "unknown" without a match
HeaderFilename(line) ==
    LET starts == {i \in 1..(Len(line) - 2) : line[i] = "b" /\ line[i + 1] = "/"}
    IN IF starts = {} THEN Unknown
       ELSE SubSeq(line, KthPosition(starts, 1) + 2, Len(line))

\* mutant of IsAddition: the file-header marker is not excluded
IsAdditionAnyPlus(line) == StartsWith(line, <<"+">>)

\* line.startswith('+') and not line.startswith('+++')
IsAddition(line) == StartsWith(line, <<"+">>) /\ ~StartsWith(line, <<"+", "+", "+">>)

\* line.startswith('-') and not line.startswith('---')
IsDeletion(line) == StartsWith(line, <<"-">>) /\ ~StartsWith(line, <<"-", "-", "-">>)

\* the branch of the if/elif chain of parse_diff a line takes
LineKind(line) ==
    IF StartsWith(line, DiffGitPrefix) THEN "header"
    ELSE IF StartsWith(line, NewFilePrefix) THEN "new_file"
    ELSE IF StartsWith(line, DeletedFilePrefix) THEN "deleted_file"
    ELSE IF IsAddition(line) THEN "addition"
    ELSE IF IsDeletion(line) THEN "deletion"
    ELSE "other"

\* mutant of Buffered: the line is put in front of the buffered lines
BufferedFirst(cp, line) == <<line>> \o cp

\* current_patch.append(line)
Buffered(cp, line) == Append(cp, line)

\* `if current_file:` before a section is flushed
FlushGuard(cf) == cf # None

\* the list `files` after the flush of the accumulator, if one is open
Flushed(fs, cf, cp) ==
    IF FlushGuard(cf) THEN Append(fs, [cf EXCEPT !.patch = Join(cp)]) ELSE fs

\* mutant of FinalFlush: the last section is not added
FinalFlushMissing(fs, cf, cp) == fs

\* the flush after the loop ("Add last file")
FinalFlush(fs, cf, cp) == Flushed(fs, cf, cp)

\* mutant of NewSection: the section opens with status added
NewSectionAdded(line) ==
    [filename |-> HeaderFilename(line), additions |-> 0, deletions |-> 0,
     patch |-> <<>>, status |-> "added"]

\* the accumulator a header line opens
NewSection(line) ==
    [filename |-> HeaderFilename(line), additions |-> 0, deletions |-> 0,
     patch |-> <<>>, status |-> "modified"]

\* mutant of StatusGuard: the status is set whether a section is open or not
StatusGuardMissing(cf) == TRUE

\* `if current_file:` before the accumulator's status is set
StatusGuard(cf) == cf # None

\* `if current_file:` before a count of the accumulator is incremented
CountGuard(cf) == cf # None

\* the accumulator after `current_file[key] = value` under its guard; Raised
\* when the assignment is made to None (TypeError)
Assigned(guard, cf, changed) ==
    IF ~guard THEN Returned(cf)
    ELSE IF cf = None THEN Raised
    ELSE Returned(changed)

-----------------------------------------------------------------------------
(* diff_parser.py: the operators of extract_changed_lines and the context *)

HunkPrefix == <<"@", "@">>
BackslashPrefix == <<"\\">>

IsDigit(c) == c \in {Digit(d) : d \in 0..9}

DigitValue(c) == CHOOSE d \in 0..9 : Digit(d) = c

RECURSIVE ToInt(_)
\* int(text) for a text of decimal digits
ToInt(ds) ==
    IF ds = <<>> THEN 0
    ELSE 10 * ToInt(SubSeq(ds, 1, Len(ds) - 1)) + DigitValue(ds[Len(ds)])

\* re.search(r'\+(\d+)', line): the leftmost '+' that a digit follows;
\* group(1) is the longest run of digits after it; None without a match
HunkMatch(line) ==
    LET starts == {i \in 1..(Len(line) - 1) : line[i] = "+" /\ IsDigit(line[i + 1])}
    IN IF starts = {} THEN None
       ELSE LET first == KthPosition(starts, 1)
                last == CHOOSE j \in (first + 1)..Len(line) :
                            /\ \A k \in (first + 1)..j : IsDigit(line[k])
                            /\ j = Len(line) \/ ~IsDigit(line[j + 1])
            IN [group1 |-> SubSeq(line, first + 1, last)]

\* mutant of HunkCounter: the header never resets the counter
HunkCounterKept(line, counter) == counter

\* current_line_num after a line that starts with '@@'
HunkCounter(line, counter) ==
    IF HunkMatch(line) # None THEN ToInt(HunkMatch(line).group1) ELSE counter

\* one dict of changed_lines
ChangedLine(n, type, line) ==
    [line_number |-> n, type |-> type, content |-> SubSeq(line, 2, Len(line)),
     raw |-> line]

\* mutant of ExtractKind: the '+++' and '---' lines are taken for changes
ExtractKindAnySign(line) ==
    IF StartsWith(line, HunkPrefix) THEN "hunk"
    ELSE IF StartsWith(line, <<"+">>) THEN "addition"
    ELSE IF StartsWith(line, <<"-">>) THEN "deletion"
    ELSE IF ~StartsWith(line, BackslashPrefix) THEN "context"
    ELSE "skipped"

\* the branch of an iteration of extract_changed_lines a line takes
ExtractKind(line) ==
    IF StartsWith(line, HunkPrefix) THEN "hunk"
    ELSE IF IsAddition(line) THEN "addition"
    ELSE IF IsDeletion(line) THEN "deletion"
    ELSE IF ~StartsWith(line, BackslashPrefix) THEN "context"
    ELSE "skipped"

\* extract_changed_lines(text) from its k-th line on, the counter being
\* counter and the list so far acc
RECURSIVE ExtractFrom(_, _, _, _)
ExtractFrom(ls, k, counter, acc) ==
    IF k > Len(ls) THEN acc
    ELSE LET line == ls[k]
             kind == ExtractKind(line)
         IN CASE kind = "hunk" ->
                    ExtractFrom(ls, k + 1, HunkCounter(line, counter), acc)
              [] kind = "addition" ->
                    ExtractFrom(ls, k + 1, counter + 1,
                                Append(acc, ChangedLine(counter, "addition", line)))
              [] kind = "deletion" ->
                    ExtractFrom(ls, k + 1, counter,
                                Append(acc, ChangedLine(counter, "deletion", line)))
              [] kind = "context" -> ExtractFrom(ls, k + 1, counter + 1, acc)
              [] OTHER -> ExtractFrom(ls, k + 1, counter, acc)

\* DiffParser.extract_changed_lines(text); the singleton binds the split
\* lines once
ExtractChangedLines(text) ==
    CHOOSE changed \in {ExtractFrom(ls, 1, 0, <<>>) : ls \in {Split(text)}} : TRUE

\* `filename.split('.')[-1] if '.' in filename else ''`
GetFileExtension(filename) ==
    LET dots == {i \in 1..Len(filename) : filename[i] = "."}
    IN IF dots = {} THEN <<>>
       ELSE SubSeq(filename, (CHOOSE d \in dots : \A e \in dots : e <= d) + 1,
                   Len(filename))

\* mutant of AnalysisContext: changes is the whole patch
AnalysisContextOfPatch(file_change) ==
    [filename |-> file_change.filename,
     language |-> GetFileExtension(file_change.filename),
     changes |-> file_change.patch,
     patch |-> file_change.patch]

\* the dict `context` of _analyze_file; the singleton binds changed_lines once
AnalysisContext(file_change) ==
    CHOOSE made \in
        {[filename |-> file_change.filename,
          language |-> GetFileExtension(file_change.filename),
          changes |-> Join([i \in 1..Len(changed) |-> changed[i].raw]),
          patch |-> file_change.patch]
            : changed \in {ExtractChangedLines(file_change.patch)}} : TRUE

-----------------------------------------------------------------------------
(* ReviewOrchestrator.review_pr as a state machine *)

ExtractIdle ==
    /\ patch = <<>>
    /\ epc = "idle"
    /\ elines = <<>>
    /\ epos = 1
    /\ changed_lines = <<>>
    /\ current_line_num = 0

FetchIdle ==
    /\ files_data = Returned(<<>>)
    /\ gpc = "idle"
    /\ gpos = 1
    /\ file_changes = <<>>

ParserIdle ==
    /\ diff_content = <<>>
    /\ ppc = "idle"
    /\ lines = <<>>
    /\ pos = 1
    /\ parsed = <<>>
    /\ current_file = None
    /\ current_patch = <<>>

GroupIdle ==
    /\ group_patch = <<>>
    /\ language = ""
    /\ fpc = "idle"
    /\ flines = <<>>
    /\ fpos = 1
    /\ functions = <<>>
    /\ current_function = None

JobsIdle ==
    /\ review_results = [k \in {} |-> None]
    /\ task = [k \in {} |-> None]
    /\ reply = None

ReportIdle ==
    /\ review_text = <<>>
    /\ rpc = "idle"
    /\ rlines = <<>>
    /\ rpos = 1
    /\ sections = None
    /\ current_section = "None"
    /\ current_blocker = [k \in {} |-> <<>>]

\* the components added to the four first ones are idle
RestIdle == GroupIdle /\ JobsIdle /\ ReportIdle

\* the state at the entry of the for loop of review_pr
Init ==
    /\ files \in FileLists
    /\ pc = "loop"
    /\ idx = 1
    /\ running = {}
    /\ results = [k \in {} |-> None]
    /\ all_analyses = [a \in AgentSet |-> <<>>]
    /\ events = 0
    /\ produced = [k \in {} |-> None]
    /\ all_issues = <<>>
    /\ llm_result = NotCalled
    /\ review = None
    /\ request = None
    /\ invoked = [k \in {} |-> 0]
    /\ context = None
    /\ received = [k \in {} |-> None]
    /\ ParserIdle
    /\ ExtractIdle
    /\ FetchIdle
    /\ RestIdle

\* mutant of IsDeleted: no file is taken for deleted
IsDeletedNever(file_change) == FALSE

\* `file_change.status == 'deleted'`
IsDeleted(file_change) == file_change.status = "deleted"

\* `if file_change.status == 'deleted': continue`
SkipDeleted ==
    /\ pc = "loop"
    /\ idx <= Len(files)
    /\ IsDeleted(files[idx])
    /\ idx' = idx + 1
    /\ UNCHANGED <<files, pc, running, results, all_analyses, events, produced, all_issues, llm_result, review, request, invoked, context, received>>
    /\ UNCHANGED <<pvars, evars, gvars, wvars>>

\* the call history after one more call of each key of calls
Invoke(history, calls) ==
    [k \in DOMAIN history \cup calls |->
        (IF k \in DOMAIN history THEN history[k] ELSE 0) + (IF k \in calls THEN 1 ELSE 0)]

\* _analyze_file up to the five executor.submit calls
Dispatch ==
    /\ pc = "loop"
    /\ idx <= Len(files)
    /\ ~IsDeleted(files[idx])
    /\ running' = AgentSet
    /\ context' = AnalysisContext(files[idx])
    /\ received' = [k \in DOMAIN received \cup {<<idx, a>> : a \in AgentSet} |->
                        IF k \in DOMAIN received THEN received[k] ELSE context']
    /\ invoked' = Invoke(invoked, {<<idx, a>> : a \in AgentSet})
    /\ results' = [k \in {} |-> None]
    /\ pc' = "fanout"
    /\ UNCHANGED <<files, idx, all_analyses, events, produced, all_issues, llm_result, review, request>>
    /\ UNCHANGED <<pvars, evars, gvars, wvars>>

\* what the as_completed loop stores for a future that produced out
Collected(out) == IF out = Raise THEN None ELSE out

\* mutant of FutureName: the name of the analyzer submitted next (the first
\* for the last)
FutureNameOfNext(a) ==
    LET k == CHOOSE i \in 1..Len(Agents) : Agents[i] = a
    IN Agents[(k % Len(Agents)) + 1]

\* `agent_name = futures[future]`: the name the future of analyzer a was
\* submitted under
FutureName(a) == a

\* mutant of StillPending: a call that raised is submitted again
StillPendingAfterFailure(pending, a, out) ==
    IF out = Raise THEN pending ELSE pending \ {a}

\* the futures as_completed has yet to yield once the future of analyzer a
\* has completed with out: each future is yielded once, whatever it produced,
\* and the except branch submits nothing
StillPending(pending, a, out) == pending \ {a}

\* the future of analyzer a completes and the as_completed loop stores its
\* result (or None when future.result() raises) under the analyzer's name
AgentCompletes(a) ==
    /\ pc = "fanout"
    /\ a \in running
    /\ \E out \in AgentOutcomes(a, files[idx].filename) :
          /\ out # DefaultOutput(a) => events < MaxEvents
          /\ events' = IF out # DefaultOutput(a) THEN events + 1 ELSE events
          /\ results' = [k \in DOMAIN results \cup {FutureName(a)} |->
                            IF k = FutureName(a) THEN Collected(out) ELSE results[k]]
          /\ produced' = [k \in DOMAIN produced \cup {<<idx, a>>} |->
                             IF k = <<idx, a>> THEN out ELSE produced[k]]
          /\ running' = StillPending(running, a, out)
          /\ invoked' = Invoke(invoked, {<<idx, a>>} \cap
                                        {<<idx, b>> : b \in StillPending(running, a, out)})
    /\ UNCHANGED <<files, pc, idx, all_analyses, all_issues, llm_result, review, request,
                   context, received>>
    /\ UNCHANGED <<pvars, evars, gvars, wvars>>

\* mutant of MergeFile: a file's result is put in front of the earlier ones
MergeFileInFront(analyses, file_analyses) ==
    [key \in DOMAIN analyses |->
        IF key \in DOMAIN file_analyses
        THEN <<file_analyses[key]>> \o analyses[key]
        ELSE analyses[key]]

\* `for key in all_analyses: if key in file_analyses: all_analyses[key].append(...)`
MergeFile(analyses, file_analyses) ==
    [key \in DOMAIN analyses |->
        IF key \in DOMAIN file_analyses
        THEN Append(analyses[key], file_analyses[key])
        ELSE analyses[key]]

\* mutant of JoinGuard: the wait ends with the first completed future
JoinGuardFirst(pending) == pending # AgentSet

\* the as_completed loop and the executor's with block end once no submitted
\* future is pending
JoinGuard(pending) == pending = {}

\* the executor's with block ends once every future has completed;
\* _analyze_file returns and review_pr appends the file's results
JoinFile ==
    /\ pc = "fanout"
    /\ JoinGuard(running)
    /\ all_analyses' = MergeFile(all_analyses, results)
    /\ idx' = idx + 1
    /\ pc' = "loop"
    /\ context' = None
    /\ UNCHANGED <<files, running, results, events, produced, all_issues, llm_result, review, request, invoked, received>>
    /\ UNCHANGED <<pvars, evars, gvars, wvars>>

\* after the loop: _collect_all_issues, then _generate_aggregated_review up to
\* chain.invoke; an exception raised on the way leaves review_pr
CallAggregator ==
    /\ pc = "loop"
    /\ idx > Len(files)
    /\ LET merged == CollectAllIssues(all_analyses)
       IN IF merged.raised
          THEN pc' = "raised" /\ UNCHANGED <<all_issues, request>>
          ELSE /\ all_issues' = merged.value
               /\ IF SummarizeAgentInsights(all_analyses).raised
                  THEN pc' = "raised" /\ UNCHANGED request
                  ELSE /\ pc' = "narrative"
                       /\ request' = AggregatorContext(all_issues', all_analyses)
    /\ UNCHANGED <<files, idx, running, results, all_analyses, events, produced,
                   llm_result, review, invoked, context, received>>
    /\ UNCHANGED <<pvars, evars, gvars, wvars>>

\* chain.invoke returns or raises; the try/except yields the review and
\* review_pr returns
NarrativeReturns ==
    /\ pc = "narrative"
    /\ \E out \in AggregatorOutcomes(all_issues) :
          /\ llm_result' = out
          /\ review' = GenerateAggregatedReview(all_issues, all_analyses, out)
    /\ invoked' = Invoke(invoked, {<<0, "aggregator">>})
    /\ pc' = "returned"
    /\ UNCHANGED <<files, idx, running, results, all_analyses, events, produced,
                   all_issues, request, context, received>>
    /\ UNCHANGED <<pvars, evars, gvars, wvars>>

Next ==
    \/ SkipDeleted
    \/ Dispatch
    \/ \E a \in AgentSet : AgentCompletes(a)
    \/ JoinFile
    \/ CallAggregator
    \/ NarrativeReturns

Spec == Init /\ [][Next]_vars

-----------------------------------------------------------------------------
(* The diff texts given to parse_diff *)

\* the lines the explored diff texts are made of
DiffLines ==
    {<<"d", "i", "f", "f", " ", "-", "-", "g", "i", "t", " ", "a", "/", "x", " ", "b", "/", "x">>,
     <<"d", "i", "f", "f", " ", "-", "-", "g", "i", "t", " ", "a", "/", "b", "/", "y", " ",
       "b", "/", "b", "/", "y">>,
     <<"n", "e", "w", " ", "f", "i", "l", "e">>,
     <<"d", "e", "l", "e", "t", "e", "d", " ", "f", "i", "l", "e">>,
     <<"+", "a">>,
     <<"-", "a">>,
     <<"+", "+", "+", " ", "b", "/", "x">>,
     <<"-", "-", "-", " ", "a", "/", "x">>,
     <<"@", "@", " ", "-", "1", " ", "+", "2", " ", "@", "@">>,
     <<" ", "c">>,
     <<"\\", " ", "N", "o", " ", "n", "e", "w", "l", "i", "n", "e">>,
     <<>>}

\* the texts: up to MaxLines lines joined by the line separator
DiffTexts ==
    {Join(ls) : ls \in UNION {[1..n -> DiffLines] : n \in 0..MaxLines}}

-----------------------------------------------------------------------------
(* DiffParser.parse_diff as a state machine *)

OrchestratorIdle ==
    /\ files = <<>>
    /\ pc = "idle"
    /\ idx = 1
    /\ running = {}
    /\ results = [k \in {} |-> None]
    /\ all_analyses = [a \in AgentSet |-> <<>>]
    /\ events = 0
    /\ produced = [k \in {} |-> None]
    /\ all_issues = <<>>
    /\ llm_result = NotCalled
    /\ review = None
    /\ request = None
    /\ invoked = [k \in {} |-> 0]
    /\ context = None
    /\ received = [k \in {} |-> None]

\* the state at the entry of the for loop of parse_diff
ParseInit ==
    /\ diff_content \in DiffTexts
    /\ lines = Split(diff_content)
    /\ ppc = "scan"
    /\ pos = 1
    /\ parsed = <<>>
    /\ current_file = None
    /\ current_patch = <<>>
    /\ OrchestratorIdle
    /\ ExtractIdle
    /\ FetchIdle
    /\ RestIdle

Scanning(kind) ==
    /\ ppc = "scan"
    /\ pos <= Len(lines)
    /\ LineKind(lines[pos]) = kind

\* `if line.startswith('diff --git')`: flush the open section, open a new one
ScanHeader ==
    /\ Scanning("header")
    /\ parsed' = Flushed(parsed, current_file, current_patch)
    /\ current_file' = NewSection(lines[pos])
    /\ current_patch' = <<>>
    /\ pos' = pos + 1
    /\ UNCHANGED <<diff_content, ppc, lines>>
    /\ UNCHANGED <<ovars, evars, gvars, wvars>>

\* the rest of an iteration whose branch assigns to the accumulator
Assign(outcome) ==
    IF outcome.raised
    THEN ppc' = "error" /\ UNCHANGED <<current_file, pos>>
    ELSE current_file' = outcome.value /\ pos' = pos + 1 /\ UNCHANGED ppc

\* `elif line.startswith('new file')`
ScanNewFile ==
    /\ Scanning("new_file")
    /\ Assign(Assigned(StatusGuard(current_file), current_file,
                       [current_file EXCEPT !.status = "added"]))
    /\ UNCHANGED <<diff_content, lines, parsed, current_patch>>
    /\ UNCHANGED <<ovars, evars, gvars, wvars>>

\* `elif line.startswith('deleted file')`
ScanDeletedFile ==
    /\ Scanning("deleted_file")
    /\ Assign(Assigned(StatusGuard(current_file), current_file,
                       [current_file EXCEPT !.status = "deleted"]))
    /\ UNCHANGED <<diff_content, lines, parsed, current_patch>>
    /\ UNCHANGED <<ovars, evars, gvars, wvars>>

\* `elif line.startswith('+') and not line.startswith('+++')`
ScanAddition ==
    /\ Scanning("addition")
    /\ Assign(Assigned(CountGuard(current_file), current_file,
                       [current_file EXCEPT !.additions = @ + 1]))
    /\ current_patch' = IF ppc' = "error" THEN current_patch
                        ELSE Buffered(current_patch, lines[pos])
    /\ UNCHANGED <<diff_content, lines, parsed>>
    /\ UNCHANGED <<ovars, evars, gvars, wvars>>

\* `elif line.startswith('-') and not line.startswith('---')`
ScanDeletion ==
    /\ Scanning("deletion")
    /\ Assign(Assigned(CountGuard(current_file), current_file,
                       [current_file EXCEPT !.deletions = @ + 1]))
    /\ current_patch' = IF ppc' = "error" THEN current_patch
                        ELSE Buffered(current_patch, lines[pos])
    /\ UNCHANGED <<diff_content, lines, parsed>>
    /\ UNCHANGED <<ovars, evars, gvars, wvars>>

\* `else: current_patch.append(line)`
ScanOther ==
    /\ Scanning("other")
    /\ current_patch' = Buffered(current_patch, lines[pos])
    /\ pos' = pos + 1
    /\ UNCHANGED <<diff_content, ppc, lines, parsed, current_file>>
    /\ UNCHANGED <<ovars, evars, gvars, wvars>>

\* after the loop: flush the last section and return `files`
ParseReturn ==
    /\ ppc = "scan"
    /\ pos > Len(lines)
    /\ parsed' = FinalFlush(parsed, current_file, current_patch)
    /\ ppc' = "done"
    /\ UNCHANGED <<diff_content, lines, pos, current_file, current_patch>>
    /\ UNCHANGED <<ovars, evars, gvars, wvars>>

ParseNext ==
    \/ ScanHeader
    \/ ScanNewFile
    \/ ScanDeletedFile
    \/ ScanAddition
    \/ ScanDeletion
    \/ ScanOther
    \/ ParseReturn

ParseSpec == ParseInit /\ [][ParseNext]_vars

\* every analyzer call and the summarization call eventually returns or raises
FairSpec == Init /\ [][Next]_vars /\ WF_vars(Next)

-----------------------------------------------------------------------------
(* DiffParser.extract_changed_lines as a state machine *)

\* most lines of a patch text given to extract_changed_lines
MaxPatchLines == 4

\* the lines the explored patch texts are made of
PatchLines ==
    {<<"@", "@", " ", "-", "1", ",", "2", " ", "+", "1", "0", ",", "3", " ", "@", "@">>,
     <<"@", "@", " ", "-", "0", ",", "0", " ", "+", "7", " ", "@", "@">>,
     <<"@", "@", " ", "x">>,
     <<" ", "c">>,
     <<"+", "a", "d", "d", "e", "d">>,
     <<"-", "d", "e", "l", "e", "t", "e", "d">>,
     <<"+", "+", "+", " ", "b", "/", "x">>,
     <<"-", "-", "-", " ", "a", "/", "x">>,
     <<"\\", " ", "N", "o">>,
     <<>>}

PatchTexts ==
    {Join(ls) : ls \in UNION {[1..n -> PatchLines] : n \in 0..MaxPatchLines}}

\* the state at the entry of the for loop of extract_changed_lines
ExtractInit ==
    /\ patch \in PatchTexts
    /\ elines = Split(patch)
    /\ epc = "scan"
    /\ epos = 1
    /\ changed_lines = <<>>
    /\ current_line_num = 0
    /\ OrchestratorIdle
    /\ ParserIdle
    /\ FetchIdle
    /\ RestIdle

Extracting(kind) ==
    /\ epc = "scan"
    /\ epos <= Len(elines)
    /\ ExtractKind(elines[epos]) = kind

\* `if line.startswith('@@')`: reset the counter when the header matches; continue
ExtractHunk ==
    /\ Extracting("hunk")
    /\ current_line_num' = HunkCounter(elines[epos], current_line_num)
    /\ epos' = epos + 1
    /\ UNCHANGED <<patch, epc, elines, changed_lines>>
    /\ UNCHANGED <<ovars, pvars, gvars, wvars>>

\* `if line.startswith('+') and not line.startswith('+++')`
ExtractAddition ==
    /\ Extracting("addition")
    /\ changed_lines' = Append(changed_lines,
                               ChangedLine(current_line_num, "addition", elines[epos]))
    /\ current_line_num' = current_line_num + 1
    /\ epos' = epos + 1
    /\ UNCHANGED <<patch, epc, elines>>
    /\ UNCHANGED <<ovars, pvars, gvars, wvars>>

\* `elif line.startswith('-') and not line.startswith('---')`
ExtractDeletion ==
    /\ Extracting("deletion")
    /\ changed_lines' = Append(changed_lines,
                               ChangedLine(current_line_num, "deletion", elines[epos]))
    /\ epos' = epos + 1
    /\ UNCHANGED <<patch, epc, elines, current_line_num>>
    /\ UNCHANGED <<ovars, pvars, gvars, wvars>>

\* `elif not line.startswith('\\')`: a context line
ExtractContext ==
    /\ Extracting("context")
    /\ current_line_num' = current_line_num + 1
    /\ epos' = epos + 1
    /\ UNCHANGED <<patch, epc, elines, changed_lines>>
    /\ UNCHANGED <<ovars, pvars, gvars, wvars>>

\* a line that starts with a backslash takes no branch
ExtractSkipped ==
    /\ Extracting("skipped")
    /\ epos' = epos + 1
    /\ UNCHANGED <<patch, epc, elines, changed_lines, current_line_num>>
    /\ UNCHANGED <<ovars, pvars, gvars, wvars>>

\* after the loop: return changed_lines
ExtractReturn ==
    /\ epc = "scan"
    /\ epos > Len(elines)
    /\ epc' = "done"
    /\ UNCHANGED <<patch, elines, epos, changed_lines, current_line_num>>
    /\ UNCHANGED <<ovars, pvars, gvars, wvars>>

ExtractNext ==
    \/ ExtractHunk
    \/ ExtractAddition
    \/ ExtractDeletion
    \/ ExtractContext
    \/ ExtractSkipped
    \/ ExtractReturn

ExtractSpec == ExtractInit /\ [][ExtractNext]_vars

-----------------------------------------------------------------------------
(* GitHubClient.fetch_pr_files and the /review endpoint up to review_pr's  *)
(* status test                                                             *)

\* the statuses the files of a pull request carry in the response
ApiStatuses == {"added", "modified", "removed", "renamed"}

\* file_data.get(key, default)
Get(file_data, key, default) ==
    IF key \in DOMAIN file_data THEN file_data[key] ELSE default

\* the i-th dict of the response, with or without the key 'status'
FileDataOf(i, status) ==
    IF status = "absent"
    THEN [filename |-> FileName(i), additions |-> 1, deletions |-> 0,
          patch |-> <<"+", "x">>]
    ELSE [filename |-> FileName(i), additions |-> 1, deletions |-> 0,
          patch |-> <<"+", "x">>, status |-> status]

\* what response.json() may yield (Raised: the request or its decoding failed)
Responses ==
    {Raised} \cup
    UNION {{Returned([i \in 1..n |-> FileDataOf(i, st[i])]) :
               st \in [1..n -> ApiStatuses \cup {"absent"}]}
           : n \in 0..MaxFiles}

\* the FileChange built from one dict of the response
FileChangeFrom(file_data) ==
    [filename |-> Get(file_data, "filename", <<>>),
     additions |-> Get(file_data, "additions", 0),
     deletions |-> Get(file_data, "deletions", 0),
     patch |-> Get(file_data, "patch", <<>>),
     status |-> Get(file_data, "status", "modified")]

\* the state of fetch_pr_files once the response has arrived or failed
FetchInit ==
    /\ files_data \in Responses
    /\ gpc = "fetch"
    /\ gpos = 1
    /\ file_changes = <<>>
    /\ OrchestratorIdle
    /\ ParserIdle
    /\ ExtractIdle
    /\ RestIdle

\* one iteration of `for file_data in files_data`
FetchFile ==
    /\ gpc = "fetch"
    /\ ~files_data.raised
    /\ gpos <= Len(files_data.value)
    /\ file_changes' = Append(file_changes, FileChangeFrom(files_data.value[gpos]))
    /\ gpos' = gpos + 1
    /\ UNCHANGED <<files_data, gpc>>
    /\ UNCHANGED <<ovars, pvars, evars, wvars>>

\* `return file_changes`
FetchReturn ==
    /\ gpc = "fetch"
    /\ ~files_data.raised
    /\ gpos > Len(files_data.value)
    /\ gpc' = "fetched"
    /\ UNCHANGED <<files_data, gpos, file_changes>>
    /\ UNCHANGED <<ovars, pvars, evars, wvars>>

\* `except Exception: return []`
FetchFails ==
    /\ gpc = "fetch"
    /\ files_data.raised
    /\ file_changes' = <<>>
    /\ gpc' = "fetched"
    /\ UNCHANGED <<files_data, gpos>>
    /\ UNCHANGED <<ovars, pvars, evars, wvars>>

\* the endpoint: `if not files: raise HTTPException(404)`
ReviewRejected ==
    /\ gpc = "fetched"
    /\ file_changes = <<>>
    /\ gpc' = "rejected"
    /\ UNCHANGED <<files_data, gpos, file_changes>>
    /\ UNCHANGED <<ovars, pvars, evars, wvars>>

\* the endpoint: `orchestrator.review_pr(files)` up to the entry of its loop
ReviewStarts ==
    /\ gpc = "fetched"
    /\ file_changes # <<>>
    /\ pc = "idle"
    /\ gpc' = "review"
    /\ files' = file_changes
    /\ pc' = "loop"
    /\ UNCHANGED <<idx, running, results, all_analyses, events, produced,
                   all_issues, llm_result, review, request, invoked, context, received>>
    /\ UNCHANGED <<files_data, gpos, file_changes>>
    /\ UNCHANGED <<pvars, evars, wvars>>

\* the pre-fetched entry point, followed up to the first dispatch of review_pr
FetchNext ==
    \/ FetchFile
    \/ FetchReturn
    \/ FetchFails
    \/ ReviewRejected
    \/ ReviewStarts
    \/ Dispatch

FetchSpec == FetchInit /\ [][FetchNext]_vars

-----------------------------------------------------------------------------
(* DiffParser.group_changes_by_function as a state machine *)

\* most lines of a patch text given to group_changes_by_function
MaxGroupLines == 3

\* the keys of `function_patterns`
Recognized == {"python", "javascript", "typescript", "java", "go"}

\* `pattern = function_patterns.get(language)`; `if not pattern: return []`
PatternFound(lang) == lang \in Recognized

\* \s of the patterns, for the characters a line may hold
SpaceChars == {" ", "\t", "\r"}

\* \w of the patterns, for the characters the explored lines hold
WordChars ==
    {"a", "b", "c", "d", "e", "f", "g", "h", "i", "j", "k", "l", "m", "n",
     "o", "p", "q", "r", "s", "t", "u", "v", "w", "x", "y", "z", "_"}
    \cup {Digit(d) : d \in 0..9}

\* the length of the longest run of characters of a class that starts at
\* position from
RunLength(line, from, class) ==
    CHOOSE n \in 0..(Len(line) + 1 - from) :
        /\ \A i \in from..(from + n - 1) : line[i] \in class
        /\ from + n > Len(line) \/ line[from + n] \notin class

\* re.search(r'^\s*def\s+(\w+)', line): group(1), or None without a match
PythonHead(line) ==
    LET lead == RunLength(line, 1, SpaceChars)
        gap == RunLength(line, lead + 4, SpaceChars)
        name == RunLength(line, lead + 4 + gap, WordChars)
    IN IF /\ Len(line) >= lead + 3
          /\ SubSeq(line, lead + 1, lead + 3) = <<"d", "e", "f">>
          /\ gap >= 1
          /\ name >= 1
       THEN [group1 |-> SubSeq(line, lead + 4 + gap, lead + 3 + gap + name)]
       ELSE None

\* `match = re.search(pattern, line)` for the pattern of language "python"
HeadMatch(lang, line) == IF lang = "python" THEN PythonHead(line) ELSE None

\* `{'name': function_name, 'changes': []}`, function_name being
\* `match.group(1) or match.group(2)`
NewFunction(match) == [name |-> match.group1, changes |-> <<>>]

\* `if current_function and (line.startswith('+') or line.startswith('-'))`
AppendGuard(cf, line) ==
    cf # None /\ (StartsWith(line, <<"+">>) \/ StartsWith(line, <<"-">>))

\* `current_function['changes'].append(line)` when the guard holds
WithChange(cf, line) ==
    IF AppendGuard(cf, line) THEN [cf EXCEPT !.changes = Append(@, line)] ELSE cf

\* the lines the explored patch texts are made of
GroupLines ==
    {<<" ", "d", "e", "f", " ", "f", "(", ")", ":">>,
     <<"d", "e", "f", " ", "g", "(", "x", ")", ":">>,
     <<"+", "d", "e", "f", " ", "h", "(", ")", ":">>,
     <<"+", "x">>,
     <<"-", "y">>,
     <<" ", "c">>,
     <<"+", "+", "+", " ", "b", "/", "x">>,
     <<"-", "-", "-", " ", "a", "/", "x">>,
     <<"@", "@", " ", "-", "1", " ", "+", "1", " ", "@", "@", " ", "d", "e", "f", " ", "k", "(", ")", ":">>,
     <<" ", "d", "e", "f", " ", " ">>,
     <<" ", "d", "e", "f", "i", "n", "e">>,
     <<>>}

GroupTexts ==
    {Join(ls) : ls \in UNION {[1..n -> GroupLines] : n \in 0..MaxGroupLines}}

\* the languages given: the recognized one whose pattern is computed, the
\* extension _analyze_file computes for a Python file, and no language
Languages == {"python", "py", ""}

\* the state at the entry of group_changes_by_function
GroupInit ==
    /\ group_patch \in GroupTexts
    /\ language \in Languages
    /\ fpc = "lookup"
    /\ flines = Split(group_patch)
    /\ fpos = 1
    /\ functions = <<>>
    /\ current_function = None
    /\ OrchestratorIdle
    /\ ParserIdle
    /\ ExtractIdle
    /\ FetchIdle
    /\ JobsIdle
    /\ ReportIdle

\* `if not pattern: return []`
GroupUnrecognized ==
    /\ fpc = "lookup"
    /\ ~PatternFound(language)
    /\ fpc' = "done"
    /\ UNCHANGED <<group_patch, language, flines, fpos, functions, current_function>>
    /\ UNCHANGED <<ovars, pvars, evars, gvars, jvars, rvars>>

\* the pattern is found: the loop starts
GroupLookup ==
    /\ fpc = "lookup"
    /\ PatternFound(language)
    /\ fpc' = "scan"
    /\ UNCHANGED <<group_patch, language, flines, fpos, functions, current_function>>
    /\ UNCHANGED <<ovars, pvars, evars, gvars, jvars, rvars>>

\* an iteration for a line the pattern matches: a new group becomes the
\* current one and is appended to functions; the second `if` then sees the
\* same line
GroupHead ==
    /\ fpc = "scan"
    /\ fpos <= Len(flines)
    /\ HeadMatch(language, flines[fpos]) # None
    /\ current_function' = WithChange(NewFunction(HeadMatch(language, flines[fpos])),
                                      flines[fpos])
    /\ functions' = Append(functions, current_function')
    /\ fpos' = fpos + 1
    /\ UNCHANGED <<group_patch, language, fpc, flines>>
    /\ UNCHANGED <<ovars, pvars, evars, gvars, jvars, rvars>>

\* an iteration for a line the pattern does not match and the guard lets
\* through: the line is appended to the current group, which is the last
\* element of functions
GroupChange ==
    /\ fpc = "scan"
    /\ fpos <= Len(flines)
    /\ HeadMatch(language, flines[fpos]) = None
    /\ AppendGuard(current_function, flines[fpos])
    /\ current_function' = WithChange(current_function, flines[fpos])
    /\ functions' = [functions EXCEPT ![Len(functions)] = current_function']
    /\ fpos' = fpos + 1
    /\ UNCHANGED <<group_patch, language, fpc, flines>>
    /\ UNCHANGED <<ovars, pvars, evars, gvars, jvars, rvars>>

\* an iteration that changes nothing
GroupOther ==
    /\ fpc = "scan"
    /\ fpos <= Len(flines)
    /\ HeadMatch(language, flines[fpos]) = None
    /\ ~AppendGuard(current_function, flines[fpos])
    /\ fpos' = fpos + 1
    /\ UNCHANGED <<group_patch, language, fpc, flines, functions, current_function>>
    /\ UNCHANGED <<ovars, pvars, evars, gvars, jvars, rvars>>

\* after the loop: return functions
GroupReturn ==
    /\ fpc = "scan"
    /\ fpos > Len(flines)
    /\ fpc' = "done"
    /\ UNCHANGED <<group_patch, language, flines, fpos, functions, current_function>>
    /\ UNCHANGED <<ovars, pvars, evars, gvars, jvars, rvars>>

GroupNext ==
    \/ GroupUnrecognized
    \/ GroupLookup
    \/ GroupHead
    \/ GroupChange
    \/ GroupOther
    \/ GroupReturn

GroupSpec == GroupInit /\ [][GroupNext]_vars

-----------------------------------------------------------------------------
(* main.py: POST /review/async, process_review_async, GET /review/status *)

\* most jobs created
MaxJobs == 3

\* the requests posted: with a github_url, with a diff_content, with neither
Requests == {"github_url", "diff_content", "neither"}

\* how the body of the try block of process_review_async ends for a request:
\* "reviewed" (files were obtained and review_pr and the response
\* construction returned), "no_files" (parse_pr_url returned None, or the file
\* list is empty), "raised" (an Exception left fetch_pr_metadata,
\* fetch_pr_files, parse_diff, PRMetadata, review_pr or PRReviewResponse)
TryOutcomes(req) ==
    IF req = "neither" THEN {"no_files"}
    ELSE {"reviewed", "no_files", "raised"}

\* the entry the background task stores for an outcome
EntryOf(outcome) ==
    CASE outcome = "reviewed" -> [status |-> "completed", result |-> "PRReviewResponse"]
      [] outcome = "no_files" -> [status |-> "failed", error |-> "Could not process PR"]
      [] outcome = "raised" -> [status |-> "failed", error |-> "str(e)"]

\* `review_results[key] = value`
Stored(dict, key, value) ==
    [k \in DOMAIN dict \cup {key} |-> IF k = key THEN value ELSE dict[k]]

\* mutant of WrittenKey: the task writes the entry of the job created last
WrittenKeyLatest(job_id) ==
    CHOOSE k \in DOMAIN review_results : \A other \in DOMAIN review_results : other <= k

\* the key process_review_async(job_id, request) writes: its own parameter
WrittenKey(job_id) == job_id

\* the state of the service before any job is created
JobInit ==
    /\ JobsIdle
    /\ OrchestratorIdle
    /\ ParserIdle
    /\ ExtractIdle
    /\ FetchIdle
    /\ GroupIdle
    /\ ReportIdle

\* POST /review/async: a fresh job id (uuid4), the entry 'processing', and the
\* background task added
ReviewPrAsync ==
    /\ Cardinality(DOMAIN review_results) < MaxJobs
    /\ \E req \in Requests :
          LET job_id == Cardinality(DOMAIN review_results) + 1
          IN /\ review_results' = Stored(review_results, job_id, [status |-> "processing"])
             /\ task' = Stored(task, job_id, [pc |-> "added", request |-> req])
    /\ UNCHANGED reply
    /\ UNCHANGED <<ovars, pvars, evars, gvars, fvars, rvars>>

\* the background task of a job runs the body of its try block up to the
\* statement that stores the outcome
ProcessReviewRuns(job_id) ==
    /\ job_id \in DOMAIN task
    /\ task[job_id].pc = "added"
    /\ \E outcome \in TryOutcomes(task[job_id].request) :
          task' = [task EXCEPT ![job_id] = [pc |-> "running", outcome |-> outcome]]
    /\ UNCHANGED <<review_results, reply>>
    /\ UNCHANGED <<ovars, pvars, evars, gvars, fvars, rvars>>

\* the background task stores 'completed' or 'failed' and ends
ProcessReviewEnds(job_id) ==
    /\ job_id \in DOMAIN task
    /\ task[job_id].pc = "running"
    /\ review_results' = Stored(review_results, WrittenKey(job_id),
                                EntryOf(task[job_id].outcome))
    /\ task' = [task EXCEPT ![job_id] = [pc |-> "ended", outcome |-> task[job_id].outcome]]
    /\ UNCHANGED reply
    /\ UNCHANGED <<ovars, pvars, evars, gvars, fvars, rvars>>

\* GET /review/status/{job_id}: 404 for an unknown id, else the stored entry
GetReviewStatus(job_id) ==
    /\ reply' = IF job_id \notin DOMAIN review_results
                THEN [job_id |-> job_id, status_code |-> 404]
                ELSE [job_id |-> job_id, status_code |-> 200,
                      status |-> review_results[job_id].status]
    /\ UNCHANGED <<review_results, task>>
    /\ UNCHANGED <<ovars, pvars, evars, gvars, fvars, rvars>>

JobNext ==
    \/ ReviewPrAsync
    \/ \E job_id \in 1..MaxJobs : ProcessReviewRuns(job_id)
    \/ \E job_id \in 1..MaxJobs : ProcessReviewEnds(job_id)
    \/ \E job_id \in 1..MaxJobs : GetReviewStatus(job_id)

JobSpec == JobInit /\ [][JobNext]_vars

-----------------------------------------------------------------------------
(* rev.py: parse_review_text as a state machine *)

\* most lines of a report text given to parse_review_text
MaxReportLines == 4

\* the characters str.strip() removes, for the characters a line may hold
IsBlank(c) == c \in {" ", "\t", "\r"}

\* line.strip()
Strip(line) ==
    LET kept == {i \in 1..Len(line) : ~IsBlank(line[i])}
    IN IF kept = {} THEN <<>>
       ELSE SubSeq(line, CHOOSE i \in kept : \A j \in kept : i <= j,
                   CHOOSE i \in kept : \A j \in kept : j <= i)

\* text.split(c, 1)[1]: what follows the first c (the callers test a prefix
\* that holds c, or match a pattern that does)
AfterFirst(line, c) ==
    LET at == CHOOSE i \in 1..Len(line) : line[i] = c /\ \A j \in 1..(i - 1) : line[j] # c
    IN SubSeq(line, at + 1, Len(line))

\* `line.split(':', 1)[1].strip()`
AfterColon(line) == Strip(AfterFirst(line, ":"))

\* text.split(c)
SplitBy(line, c) ==
    LET seps == {i \in 1..Len(line) : line[i] = c}
        n == Cardinality(seps) + 1
    IN [k \in 1..n |->
           SubSeq(line,
                  IF k = 1 THEN 1 ELSE KthPosition(seps, k - 1) + 1,
                  IF k = n THEN Len(line) ELSE KthPosition(seps, k) - 1)]

\* the first entry of a table of prefixes the line starts with (None without)
FirstPrefix(table, line) ==
    LET hits == {i \in 1..Len(table) : StartsWith(line, table[i].prefix)}
    IN IF hits = {} THEN None
       ELSE table[CHOOSE i \in hits : \A j \in hits : i <= j]

\* the if/elif chain that detects sections
SectionHeaders ==
    <<[prefix |-> <<"#", "#", " ", "P", "R", " ", "M", "e", "t", "a", "d", "a", "t", "a">>, key |-> "metadata"],
      [prefix |-> <<"#", "#", " ", "O", "v", "e", "r", "a", "l", "l", " ", "R", "e", "v", "i", "e", "w", " ", "S", "u", "m", "m", "a", "r", "y">>, key |-> "overall_summary"],
      [prefix |-> <<"#", "#", " ", "C", "r", "i", "t", "i", "c", "a", "l", " ", "B", "l", "o", "c", "k", "e", "r", "s">>, key |-> "critical_blockers"],
      [prefix |-> <<"#", "#", " ", "A", "l", "l", " ", "I", "s", "s", "u", "e", "s">>, key |-> "all_issues"],
      [prefix |-> <<"#", "#", " ", "S", "t", "r", "e", "n", "g", "t", "h", "s">>, key |-> "strengths"],
      [prefix |-> <<"#", "#", " ", "S", "u", "m", "m", "a", "r", "y", " ", "b", "y", " ", "C", "a", "t", "e", "g", "o", "r", "y">>, key |-> "summary_by_category"],
      [prefix |-> <<"#", "#", " ", "P", "r", "i", "o", "r", "i", "t", "y", " ", "A", "c", "t", "i", "o", "n", "s">>, key |-> "priority_actions"],
      [prefix |-> <<"#", "#", " ", "A", "g", "e", "n", "t", " ", "A", "n", "a", "l", "y", "s", "e", "s">>, key |-> "agent_analyses"],
      [prefix |-> <<"#", "#", " ", "F", "i", "n", "a", "l", " ", "V", "e", "r", "d", "i", "c", "t">>, key |-> "final_verdict"]>>

\* the elif chains of the sections 'metadata', 'overall_summary' and
\* 'critical_blockers' that store what follows the colon
MetadataKeys ==
    <<[prefix |-> <<"-", " ", "P", "R", " ", "N", "u", "m", "b", "e", "r", ":">>, key |-> "pr_number"],
      [prefix |-> <<"-", " ", "T", "i", "t", "l", "e", ":">>, key |-> "title"],
      [prefix |-> <<"-", " ", "A", "u", "t", "h", "o", "r", ":">>, key |-> "author"],
      [prefix |-> <<"-", " ", "B", "r", "a", "n", "c", "h", ":">>, key |-> "branch"]>>
FilesChangedPrefix == <<"-", " ", "F", "i", "l", "e", "s", " ", "c", "h", "a", "n", "g", "e", "d">>
OverallKeys ==
    <<[prefix |-> <<"-", " ", "O", "v", "e", "r", "a", "l", "l", " ", "a", "s", "s", "e", "s", "s", "m", "e", "n", "t", ":">>, key |-> "assessment"],
      [prefix |-> <<"-", " ", "A", "p", "p", "r", "o", "v", "a", "l", " ", "s", "t", "a", "t", "u", "s", ":">>, key |-> "approval_status"],
      [prefix |-> <<"-", " ", "S", "h", "o", "r", "t", " ", "s", "u", "m", "m", "a", "r", "y", ":">>, key |-> "short_summary"]>>
FilePrefix == <<"-", " ", "F", "i", "l", "e", ":">>
BlockerKeys ==
    <<[prefix |-> <<"-", " ", "I", "s", "s", "u", "e", ":">>, key |-> "issue"],
      [prefix |-> <<"-", " ", "C", "o", "d", "e", " ", "S", "n", "i", "p", "p", "e", "t", ":">>, key |-> "code_snippet"],
      [prefix |-> <<"-", " ", "R", "e", "c", "o", "m", "m", "e", "n", "d", "a", "t", "i", "o", "n", ":">>, key |-> "recommendation"],
      [prefix |-> <<"-", " ", "R", "e", "a", "s", "o", "n", "i", "n", "g", ":">>, key |-> "reasoning"]>>

\* re.match(r'^\d+\.', line)
NumberedItem(line) ==
    LET digits == RunLength(line, 1, {Digit(d) : d \in 0..9})
    IN digits >= 1 /\ Len(line) > digits /\ line[digits + 1] = "."

\* `sections` at the entry of the loop
EmptySections ==
    [metadata |-> [k \in {} |-> <<>>],
     overall_summary |-> [k \in {} |-> <<>>],
     critical_blockers |-> <<>>,
     all_issues |-> <<>>,
     strengths |-> <<>>,
     summary_by_category |-> [k \in {} |-> <<>>],
     priority_actions |-> <<>>,
     agent_analyses |-> <<>>,
     final_verdict |-> <<>>]

\* a dict is true when it is not empty
Truthy(dict) == DOMAIN dict # {}

\* `sections` after the branch of a content line (stripped, not empty, no
\* section header) in the section in force
SectionsAfter(secs, section, blocker, line) ==
    CASE section = "metadata" ->
           IF FirstPrefix(MetadataKeys, line) # None
           THEN [secs EXCEPT !.metadata =
                    Stored(@, FirstPrefix(MetadataKeys, line).key, AfterColon(line))]
           ELSE IF StartsWith(line, FilesChangedPrefix)
           THEN LET parts == SplitBy(AfterColon(line), ",")
                IN IF Len(parts) >= 3
                   THEN [secs EXCEPT !.metadata =
                            Stored(Stored(Stored(@, "files_changed", Strip(parts[1])),
                                          "additions", Strip(parts[2])),
                                   "deletions", Strip(parts[3]))]
                   ELSE secs
           ELSE secs
      [] section = "overall_summary" ->
           IF FirstPrefix(OverallKeys, line) # None
           THEN [secs EXCEPT !.overall_summary =
                    Stored(@, FirstPrefix(OverallKeys, line).key, AfterColon(line))]
           ELSE secs
      [] section = "critical_blockers" ->
           IF StartsWith(line, FilePrefix) /\ Truthy(blocker)
           THEN [secs EXCEPT !.critical_blockers = Append(@, blocker)]
           ELSE secs
      [] section = "strengths" ->
           IF StartsWith(line, <<"-", " ">>)
           THEN [secs EXCEPT !.strengths = Append(@, Strip(SubSeq(line, 3, Len(line))))]
           ELSE secs
      [] section = "priority_actions" ->
           IF NumberedItem(line)
           THEN [secs EXCEPT !.priority_actions = Append(@, Strip(AfterFirst(line, ".")))]
           ELSE secs
      [] section = "agent_analyses" ->
           [secs EXCEPT !.agent_analyses = @ \o line \o <<" ">>]
      [] section = "final_verdict" ->
           [secs EXCEPT !.final_verdict = @ \o line \o <<" ">>]
      [] OTHER -> secs

\* `current_blocker` after the branch of a content line
BlockerAfter(section, blocker, line) ==
    IF section # "critical_blockers" THEN blocker
    ELSE IF StartsWith(line, FilePrefix) THEN [file |-> AfterColon(line)]
    ELSE IF FirstPrefix(BlockerKeys, line) # None
    THEN Stored(blocker, FirstPrefix(BlockerKeys, line).key, AfterColon(line))
    ELSE blocker

\* the condition of the append after the loop
LastBlockerGuard(blocker, section) ==
    Truthy(blocker) /\ section = "critical_blockers"

\* the lines the explored report texts are made of
ReportLines ==
    {<<"#", "#", " ", "C", "r", "i", "t", "i", "c", "a", "l", " ", "B", "l", "o", "c", "k", "e", "r", "s">>,
     <<"#", "#", " ", "S", "t", "r", "e", "n", "g", "t", "h", "s">>,
     <<"-", " ", "F", "i", "l", "e", ":", " ", "a">>,
     <<" ", "-", " ", "F", "i", "l", "e", ":", " ", "b", " ">>,
     <<"-", " ", "I", "s", "s", "u", "e", ":", " ", "i">>,
     <<"-", " ", "R", "e", "a", "s", "o", "n", "i", "n", "g", ":", " ", "r">>,
     <<"-", " ", "o", "k">>,
     <<>>}

ReportTexts ==
    {Join(ls) : ls \in UNION {[1..n -> ReportLines] : n \in 0..MaxReportLines}}

\* the state at the entry of the for loop of parse_review_text
ReportInit ==
    /\ review_text \in ReportTexts
    /\ rpc = "scan"
    /\ rlines = Split(review_text)
    /\ rpos = 1
    /\ sections = EmptySections
    /\ current_section = "None"
    /\ current_blocker = [k \in {} |-> <<>>]
    /\ OrchestratorIdle
    /\ ParserIdle
    /\ ExtractIdle
    /\ FetchIdle
    /\ GroupIdle
    /\ JobsIdle

\* `line = line.strip()`; `if not line: continue`
ReportBlank ==
    /\ rpc = "scan"
    /\ rpos <= Len(rlines)
    /\ Strip(rlines[rpos]) = <<>>
    /\ rpos' = rpos + 1
    /\ UNCHANGED <<review_text, rpc, rlines, sections, current_section, current_blocker>>
    /\ UNCHANGED <<ovars, pvars, evars, gvars, fvars, jvars>>

\* a section header: `current_section = ...; continue`
ReportHeader ==
    /\ rpc = "scan"
    /\ rpos <= Len(rlines)
    /\ Strip(rlines[rpos]) # <<>>
    /\ FirstPrefix(SectionHeaders, Strip(rlines[rpos])) # None
    /\ current_section' = FirstPrefix(SectionHeaders, Strip(rlines[rpos])).key
    /\ rpos' = rpos + 1
    /\ UNCHANGED <<review_text, rpc, rlines, sections, current_blocker>>
    /\ UNCHANGED <<ovars, pvars, evars, gvars, fvars, jvars>>

\* a content line: the branch of the section in force
ReportContent ==
    /\ rpc = "scan"
    /\ rpos <= Len(rlines)
    /\ Strip(rlines[rpos]) # <<>>
    /\ FirstPrefix(SectionHeaders, Strip(rlines[rpos])) = None
    /\ sections' = SectionsAfter(sections, current_section, current_blocker,
                                 Strip(rlines[rpos]))
    /\ current_blocker' = BlockerAfter(current_section, current_blocker,
                                       Strip(rlines[rpos]))
    /\ rpos' = rpos + 1
    /\ UNCHANGED <<review_text, rpc, rlines, current_section>>
    /\ UNCHANGED <<ovars, pvars, evars, gvars, fvars, jvars>>

\* after the loop: the last blocker is appended when the guard holds; return
ReportReturn ==
    /\ rpc = "scan"
    /\ rpos > Len(rlines)
    /\ sections' = IF LastBlockerGuard(current_blocker, current_section)
                   THEN [sections EXCEPT !.critical_blockers = Append(@, current_blocker)]
                   ELSE sections
    /\ rpc' = "done"
    /\ UNCHANGED <<review_text, rlines, rpos, current_section, current_blocker>>
    /\ UNCHANGED <<ovars, pvars, evars, gvars, fvars, jvars>>

ReportNext ==
    \/ ReportBlank
    \/ ReportHeader
    \/ ReportContent
    \/ ReportReturn

ReportSpec == ReportInit /\ [][ReportNext]_vars

-----------------------------------------------------------------------------
(* Properties of review_pr *)

\* the indices of the input files that are not deleted, in input order
NonDeleted == SelectSeq([i \in 1..Len(files) |-> i],
                        LAMBDA i : files[i].status # "deleted")

\* the summarization call failed: it raised, or its result failed validation
NarrativeFailed ==
    \/ llm_result = Raise
    \/ /\ llm_result # NotCalled
       /\ llm_result # Raise
       /\ ValidationRaises(llm_result)

\* C1: the returned review's approval_status is CHANGES_REQUESTED if a merged
\* finding is critical or high, else COMMENTED if the merged list is non-empty,
\* else APPROVED, whether the summarization result or the fallback is returned.
C1_Disposition ==
    pc = "returned" =>
        review.approval_status =
            IF \E i \in 1..Len(all_issues) : all_issues[i].severity \in {"critical", "high"}
            THEN "CHANGES_REQUESTED"
            ELSE IF Len(all_issues) > 0 THEN "COMMENTED" ELSE "APPROVED"

\* the sub-sequence of s whose severity is critical or high
BlockersOf(s) == SelectSeq(s, LAMBDA f : f.severity \in {"critical", "high"})

\* C2: in every returned review critical_blockers is exactly the sub-sequence
\* of that review's all_issues whose severity is critical or high.
C2_BlockersExact ==
    pc = "returned" => review.critical_blockers = BlockersOf(review.all_issues)

\* the count a tally gives a category (0 when the key is absent)
CountIn(summary, c) == IF c \in DOMAIN summary THEN summary[c] ELSE 0

\* C3: in every returned review summary_by_category[c] is the number of
\* findings of category c in that review's all_issues, for every category c.
C3_TallyConsistent ==
    pc = "returned" =>
        \A c \in Categories :
            CountIn(review.summary_by_category, c)
                = Cardinality({i \in 1..Len(review.all_issues) :
                                  review.all_issues[i].category = c})

\* analyzer a raised on every call of this review, and was called
RaisedOnEveryCall(a) ==
    /\ NonDeleted # <<>>
    /\ \A k \in 1..Len(NonDeleted) :
          /\ <<NonDeleted[k], a>> \in DOMAIN produced
          /\ produced[<<NonDeleted[k], a>>] = Raise

\* C4: when one analyzer raises on every call, every analyzer has one entry per
\* non-deleted file and each entry of the failing analyzer is its declared
\* empty default, never a null placeholder.
C4_FailureDefaulted ==
    pc = "returned" =>
        \A a \in AgentSet :
            RaisedOnEveryCall(a) =>
                /\ \A b \in AgentSet : Len(all_analyses[b]) = Len(NonDeleted)
                /\ \A k \in 1..Len(all_analyses[a]) :
                      all_analyses[a][k] = DefaultOutput(a)

\* every analyzer was called for every non-deleted file, and what a call
\* returned is recorded at the file's place in the analyzer's sequence
AllRecorded ==
    \A a \in AgentSet :
        /\ Len(all_analyses[a]) = Len(NonDeleted)
        /\ \A k \in 1..Len(NonDeleted) :
              /\ <<NonDeleted[k], a>> \in DOMAIN produced
              /\ produced[<<NonDeleted[k], a>>] # Raise =>
                    all_analyses[a][k] = produced[<<NonDeleted[k], a>>]

\* C5: an exception of any subset of the analyzer calls never leaves
\* review_pr; the siblings' results are recorded, every later non-deleted file
\* is analyzed, and review_pr eventually returns a review.
C5_FaultIsolation ==
    /\ [](pc # "raised")
    /\ [](pc = "returned" => AllRecorded /\ review # None)
    /\ <>(pc = "returned")

\* C5 witness: a call raised for the first file, a sibling's findings were
\* recorded, the second file was analyzed and review_pr returned
C5_Witness ==
    /\ pc = "returned"
    /\ Len(files) = 2
    /\ \E a \in AgentSet : \E b \in AgentSet \ {a} :
          /\ <<1, a>> \in DOMAIN produced /\ produced[<<1, a>>] = Raise
          /\ <<1, b>> \in DOMAIN produced
          /\ produced[<<1, b>>] = OutputOf(b, FoundIssues(b, FileName(1)), 80)
          /\ all_analyses[b][1] = produced[<<1, b>>]
          /\ <<2, a>> \in DOMAIN produced

ReviewFields == {"overall_assessment", "approval_status", "critical_blockers",
                 "all_issues", "strengths", "summary_by_category", "priority_actions"}

IssueFields == {"category", "severity", "line_number", "filename", "code_snippet",
                "issue_description", "recommendation", "reasoning"}

\* s is a list of complete ReviewIssue objects
IssueList(s) ==
    /\ DOMAIN s = 1..Len(s)
    /\ \A i \in 1..Len(s) :
          /\ DOMAIN s[i] = IssueFields
          /\ s[i].category \in Categories
          /\ s[i].severity \in Severities

\* r is an AggregatedReview with all seven fields present and non-null
StructurallyComplete(r) ==
    /\ r # None
    /\ DOMAIN r = ReviewFields
    /\ r.overall_assessment # ""
    /\ r.approval_status \in {"APPROVED", "COMMENTED", "CHANGES_REQUESTED"}
    /\ IssueList(r.critical_blockers)
    /\ IssueList(r.all_issues)
    /\ DOMAIN r.strengths = 1..Len(r.strengths)
    /\ DOMAIN r.summary_by_category \subseteq Categories
    /\ \A c \in DOMAIN r.summary_by_category : r.summary_by_category[c] \in Nat
    /\ DOMAIN r.priority_actions = 1..Len(r.priority_actions)

\* C6: when the summarization capability fails, review_pr still returns a
\* structurally complete AggregatedReview, whatever the analyzers produced
\* (missing results included), and no failure of the narrative step escapes.
C6_FallbackValid ==
    /\ pc # "raised"
    /\ (pc = "returned" /\ NarrativeFailed) => StructurallyComplete(review)

\* C6 witness: the summarization raised after an analyzer result went missing
C6_Witness ==
    /\ pc = "returned"
    /\ llm_result = Raise
    /\ \E a \in AgentSet : \E k \in 1..Len(all_analyses[a]) : all_analyses[a][k] = None
    /\ review.all_issues # <<>>

\* C7: review_pr([]) returns APPROVED, an empty all_issues and empty
\* per-analyzer sequences, whatever the summarization capability does.
C7_EmptyInput ==
    (pc = "returned" /\ files = <<>>) =>
        /\ review.approval_status = "APPROVED"
        /\ review.all_issues = <<>>
        /\ \A a \in AgentSet : all_analyses[a] = <<>>

\* C13: for every input file of status 'deleted' review_pr invokes no analyzer
\* and appends no entry to any analyzer's sequence; every file of any other
\* status is analyzed by all five analyzers.
C13_DeletedSkipped ==
    /\ [](\A i \in 1..Len(files) : files[i].status = "deleted" =>
              /\ \A a \in AgentSet : <<i, a>> \notin DOMAIN produced
              /\ ~(idx = i /\ (pc = "fanout" \/ running # {})))
    /\ [][(idx' = idx + 1 /\ files[idx].status = "deleted") =>
              all_analyses' = all_analyses]_vars
    /\ [](pc \in {"narrative", "returned"} =>
              /\ \A i \in 1..Len(files) : files[i].status # "deleted" =>
                     \A a \in AgentSet : <<i, a>> \in DOMAIN produced
              /\ \A a \in AgentSet : Len(all_analyses[a]) = Len(NonDeleted))

\* C13 witness: review_pr returned for a deleted file followed by a file of
\* another status than modified, which all five analyzers analyzed
C13_Witness ==
    /\ pc = "returned"
    /\ Len(files) = 2
    /\ files[1].status = "deleted"
    /\ files[2].status \in OtherStatuses
    /\ \A a \in AgentSet : <<2, a>> \in DOMAIN produced /\ Len(all_analyses[a]) = 1

\* C14: after review_pr agent_analyses has exactly the five keys logic,
\* security, performance, readability, testing; each sequence has one entry per
\* non-deleted input file, the i-th being that analyzer's result for the i-th
\* non-deleted file in input order, in whatever order the calls finished.
C14_AnalysesShape ==
    pc = "returned" =>
        /\ DOMAIN all_analyses = {"logic", "security", "performance",
                                  "readability", "testing"}
        /\ \A a \in DOMAIN all_analyses :
              /\ DOMAIN all_analyses[a] = 1..Len(NonDeleted)
              /\ \A i \in 1..Len(NonDeleted) :
                    LET result == produced[<<NonDeleted[i], a>>]
                    IN result # Raise => all_analyses[a][i] = result

\* C14 witness: two files were analyzed and gave one analyzer different
\* results, the first with findings and the second without
C14_Witness ==
    /\ pc = "returned"
    /\ Len(NonDeleted) = 2
    /\ \E a \in AgentSet :
          /\ produced[<<1, a>>] = OutputOf(a, FoundIssues(a, FileName(1)), 80)
          /\ produced[<<2, a>>] = DefaultOutput(a)
          /\ all_analyses[a] = <<produced[<<1, a>>], produced[<<2, a>>]>>

\* the findings analyzer a returned for the i-th input file (none when its
\* call raised)
FindingsOf(i, a) ==
    LET result == produced[<<i, a>>]
    IN IF result = Raise THEN <<>> ELSE result[IssueField(a)]

\* the findings of the i-th input file in analyzer roster order
FindingsOfFile(i) == Flatten([j \in 1..Len(Agents) |-> FindingsOf(i, Agents[j])])

\* C15: the merged all_issues is ordered by file first and analyzer second:
\* the findings of an earlier input file precede those of a later one, and
\* within a file they follow the roster order logic, security, performance,
\* readability, testing, each analyzer's findings in the order it returned them.
C15_FileFirst ==
    pc \in {"narrative", "returned"} =>
        all_issues = Flatten([k \in 1..Len(NonDeleted) |-> FindingsOfFile(NonDeleted[k])])

\* the findings the analyzers reported: <<i, a, j>> for the j-th finding in
\* the finding-bearing field of analyzer a's result for the non-deleted file i
Reported ==
    {t \in (1..Len(files)) \X AgentSet \X (1..(AllIssuesCap + 1)) :
        /\ files[t[1]].status # "deleted"
        /\ t[3] <= Len(FindingsOf(t[1], t[2]))}

\* how often a value occurs in a list
Occurrences(s, x) == Cardinality({i \in 1..Len(s) : s[i] = x})

\* C16: the merge neither drops nor deduplicates: as a multiset the merged list
\* is the union, over the non-deleted files and the five analyzers, of the
\* findings in the analyzer's finding-bearing field; its length is the sum of
\* their lengths and a finding reported by two analyzers appears twice.
C16_MergeMultiset ==
    pc \in {"narrative", "returned"} =>
        LET reported == Flatten([k \in 1..Len(NonDeleted) |->
                                    FindingsOfFile(NonDeleted[k])])
        IN /\ Len(all_issues) = Len(reported)
           /\ \A x \in {all_issues[i] : i \in 1..Len(all_issues)}
                       \cup {reported[i] : i \in 1..Len(reported)} :
                 Occurrences(all_issues, x) = Occurrences(reported, x)

\* C16 witness: two analyzers reported the same finding for a file and the
\* merged list holds it twice
C16_Witness ==
    /\ pc = "returned"
    /\ \E t \in Reported : \E u \in Reported :
          /\ t[1] = u[1] /\ t[2] # u[2]
          /\ FindingsOf(t[1], t[2])[t[3]] = FindingsOf(u[1], u[2])[u[3]]
          /\ Occurrences(all_issues, FindingsOf(t[1], t[2])[t[3]]) = 2

\* C17: the per-file collection point is a barrier: _analyze_file returns only
\* after all five calls dispatched for the file have completed, with a result
\* or a failure; no call for the next file starts, and the merge does not
\* start, while a call for the file is still running.
C17_Barrier ==
    /\ [](running # {} => pc = "fanout" /\ all_issues = <<>> /\ llm_result = NotCalled)
    /\ [][running # {} => /\ idx' = idx
                          /\ all_analyses' = all_analyses
                          /\ running' \subseteq running]_vars
    /\ [][(pc = "fanout" /\ pc' # "fanout") =>
              /\ DOMAIN results = AgentSet
              /\ \A a \in AgentSet : <<idx, a>> \in DOMAIN produced]_vars

\* C17 witness: the calls for the second file are running after all five calls
\* for the first file completed, one of them by a failure
C17_Witness ==
    /\ pc = "fanout"
    /\ idx = 2
    /\ running # {}
    /\ \A a \in AgentSet : <<1, a>> \in DOMAIN produced
    /\ \E a \in AgentSet : produced[<<1, a>>] = Raise
    /\ \A a \in AgentSet : Len(all_analyses[a]) = 1

\* what is kept of a call's outcome: its result, or None when it raised
Kept(outcome) == IF outcome = Raise THEN None ELSE outcome

\* the findings of analyzer a over the non-deleted files in input order
FindingsOfAgent(a) ==
    Flatten([k \in 1..Len(NonDeleted) |-> FindingsOf(NonDeleted[k], a)])

\* C18: for fixed analyzer outcomes the mapping _analyze_file returns, and
\* hence agent_analyses and the merged finding list, are the same for every
\* completion order of the five concurrent calls; each result is stored under
\* the name of the analyzer that produced it and never under another name.
C18_OrderIndependent ==
    /\ [](pc = "fanout" =>
            /\ DOMAIN results = AgentSet \ running
            /\ \A a \in DOMAIN results : results[a] = Kept(produced[<<idx, a>>]))
    /\ [](pc \in {"narrative", "returned"} =>
            /\ all_analyses =
                  [a \in AgentSet |->
                      [k \in 1..Len(NonDeleted) |-> Kept(produced[<<NonDeleted[k], a>>])]]
            /\ all_issues =
                  Flatten([j \in 1..Len(Agents) |-> FindingsOfAgent(Agents[j])]))

\* C18 witness: the call submitted last completed with findings, and is
\* stored under its own name, while the call submitted first is still running
C18_Witness ==
    /\ pc = "fanout"
    /\ "logic" \in running
    /\ "testing" \in DOMAIN results
    /\ results["testing"]
         = OutputOf("testing", FoundIssues("testing", files[idx].filename), 80)

\* the first n entries of a list (all of it when it is shorter)
FirstN(s, n) == [i \in 1..(IF Len(s) < n THEN Len(s) ELSE n) |-> s[i]]

\* C22: when the narrative step fails the returned review is built from local
\* data only: approval_status is the local disposition, critical_blockers the
\* first 10 local blockers, all_issues the first 50 merged findings (both in
\* collection order), summary_by_category the tally over the full merged list,
\* overall_assessment the fixed string and priority_actions the fixed 3 items.
C22_FallbackContents ==
    (pc = "returned" /\ NarrativeFailed) =>
        /\ review.approval_status =
              IF \E i \in 1..Len(all_issues) :
                    all_issues[i].severity \in {"critical", "high"}
              THEN "CHANGES_REQUESTED"
              ELSE IF Len(all_issues) > 0 THEN "COMMENTED" ELSE "APPROVED"
        /\ review.critical_blockers = FirstN(BlockersOf(all_issues), 10)
        /\ review.all_issues = FirstN(all_issues, 50)
        /\ \A c \in Categories \cup DOMAIN review.summary_by_category :
              CountIn(review.summary_by_category, c)
                 = Cardinality({i \in 1..Len(all_issues) : all_issues[i].category = c})
        /\ review.overall_assessment = "Review completed with automated analysis."
        /\ review.priority_actions = <<"Review all flagged issues",
                                       "Address critical blockers first",
                                       "Improve test coverage">>

\* C22 witness: the summarization raised with more than 50 merged findings
\* and more than 10 blockers, and the fallback with both cuts was returned
C22_Witness ==
    /\ pc = "returned"
    /\ llm_result = Raise
    /\ Len(all_issues) > 50
    /\ Len(BlockersOf(all_issues)) > 10
    /\ Len(review.all_issues) = 50
    /\ Len(review.critical_blockers) = 10

\* every required field of a ReviewIssue is present and non-empty
RequiredFilled(issue) ==
    /\ {"category", "severity", "filename", "code_snippet", "issue_description",
        "recommendation", "reasoning"} \subseteq DOMAIN issue
    /\ issue.filename # <<>>
    /\ issue.code_snippet # <<>>
    /\ issue.issue_description # <<>>
    /\ issue.recommendation # ""
    /\ issue.reasoning # ""

\* every Finding of a summarization result passes the required-field validation
AllRequiredFilled(r) ==
    /\ \A i \in 1..Len(r.critical_blockers) : RequiredFilled(r.critical_blockers[i])
    /\ \A i \in 1..Len(r.all_issues) : RequiredFilled(r.all_issues[i])

\* C23: a summarization result is returned only if every Finding of its
\* critical_blockers and all_issues has every required field present and
\* non-empty; if a Finding fails that, or the call raises, or the output
\* violates the schema, the result is discarded and the fallback is returned.
C23_ValidatedOrFallback ==
    pc = "returned" =>
        /\ review = llm_result => AllRequiredFilled(llm_result)
        /\ (llm_result = Raise \/ ~AllRequiredFilled(llm_result)) =>
              review.overall_assessment = "Review completed with automated analysis."

\* C24: the request sent to the summarization capability serializes the
\* first min(15, n) findings of the merged list, in collection order and no
\* others, while its total-issue count, its blocker count and its category
\* tally are computed over all n merged findings.
C24_RequestContents ==
    pc \in {"narrative", "returned"} =>
        LET n == Len(all_issues)
            shown == IF n < DetailCap THEN n ELSE DetailCap
        IN /\ Len(request.issues_detail) = shown
           /\ Len(request.issues_detail) <= DetailCap
           /\ \A i \in 1..shown :
                 LET detail == request.issues_detail[i]
                     issue == all_issues[i]
                 IN /\ detail.number = i
                    /\ <<detail.category, detail.severity, detail.filename,
                         detail.line_number, detail.issue_description,
                         detail.recommendation, detail.reasoning>>
                       = <<issue.category, issue.severity, issue.filename,
                           issue.line_number, issue.issue_description,
                           issue.recommendation, issue.reasoning>>
                    /\ issue.code_snippet # <<>> =>
                          detail.code_snippet = FirstN(issue.code_snippet, SnippetCap)
           /\ request.total_issues = n
           /\ request.critical_count = Len(BlockersOf(all_issues))
           /\ DOMAIN request.category_summary =
                 {all_issues[i].category : i \in 1..n}
           /\ \A c \in DOMAIN request.category_summary :
                 request.category_summary[c] =
                    Cardinality({i \in 1..n : all_issues[i].category = c})

\* a request for more merged findings than it serializes
C24_Witness ==
    /\ pc = "narrative"
    /\ Len(all_issues) > DetailCap
    /\ Len(request.issues_detail) = DetailCap
    /\ request.total_issues = Len(all_issues)

\* the analyzer calls submitted and not yet completed
InFlight == {k \in DOMAIN invoked : k[1] > 0 /\ k \notin DOMAIN produced}

\* C25: within one review_pr call each of the five analyzers is invoked
\* exactly once per non-deleted file (and not at all for a deleted one), is
\* never invoked again after a failure, the summarization capability is
\* invoked at most once, and at most five analyzer calls are in flight.
C25_InvokedOnce ==
    /\ \A i \in 1..Len(files) : \A a \in AgentSet :
          LET reached == i < idx \/ (i = idx /\ pc = "fanout")
          IN IF reached /\ files[i].status # "deleted"
             THEN <<i, a>> \in DOMAIN invoked /\ invoked[<<i, a>>] = 1
             ELSE <<i, a>> \notin DOMAIN invoked
    /\ \A k \in DOMAIN produced : produced[k] = Raise => invoked[k] = 1
    /\ <<0, "aggregator">> \in DOMAIN invoked => invoked[<<0, "aggregator">>] = 1
    /\ pc = "returned" => <<0, "aggregator">> \in DOMAIN invoked
    /\ Cardinality(InFlight) <= Len(Agents)
    /\ Len(Agents) = 5

\* C25 witness: a review of two analyzed files has returned, one analyzer call
\* raised, and each of the ten analyzer calls and the summarization was made
\* once
C25_Witness ==
    /\ pc = "returned"
    /\ \E k \in DOMAIN produced : produced[k] = Raise /\ invoked[k] = 1
    /\ Cardinality(DOMAIN invoked) = 2 * Len(Agents) + 1
    /\ \A k \in DOMAIN invoked : invoked[k] = 1

\* the text after the last '.' of a name (empty when the name has none)
AfterLastDot(name) ==
    IF \A i \in 1..Len(name) : name[i] # "." THEN <<>>
    ELSE LET d == CHOOSE i \in 1..Len(name) :
                     name[i] = "." /\ \A j \in (i + 1)..Len(name) : name[j] # "."
         IN SubSeq(name, d + 1, Len(name))

\* the addition and deletion lines of a patch text, in patch order
ChangeLinesOf(text) ==
    SelectSeq(Split(text),
              LAMBDA l : \/ StartsWith(l, <<"+">>) /\ ~StartsWith(l, <<"+", "+", "+">>)
                         \/ StartsWith(l, <<"-">>) /\ ~StartsWith(l, <<"-", "-", "-">>))

\* the context the claim describes for a FileChange
DescribedContext(f) ==
    [filename |-> f.filename, language |-> AfterLastDot(f.filename),
     changes |-> Join(ChangeLinesOf(f.patch)), patch |-> f.patch]

\* C26: for each non-deleted file the context is built once and all five
\* analyzers receive that same context: filename is the file's name, language
\* the text after the last '.' of the name (empty without one), changes the
\* newline-join of the file's addition and deletion lines in patch order, and
\* patch the file's full patch; no analyzer call and no orchestrator step
\* changes the context or the FileChange after construction.
C26_ContextFrame ==
    /\ [](\A k \in DOMAIN received :
             /\ files[k[1]].status # "deleted"
             /\ received[k] = DescribedContext(files[k[1]]))
    /\ [](pc = "fanout" =>
             /\ context = DescribedContext(files[idx])
             /\ \A a \in AgentSet : received[<<idx, a>>] = context)
    /\ [][/\ files' = files
          /\ context' # context => \/ context = None /\ pc = "loop" /\ pc' = "fanout"
                                   \/ context' = None /\ pc = "fanout" /\ pc' = "loop"
          /\ \A k \in DOMAIN received :
                k \in DOMAIN received' /\ received'[k] = received[k]]_vars

\* C26 witness: the analyzers of a file whose name has no '.' and those of a
\* file whose name has two have received their contexts, whose changes leave
\* out the hunk header and the context line of the patch
C26_Witness ==
    /\ pc = "fanout"
    /\ idx = 2
    /\ running # AgentSet
    /\ context.language = <<>>
    /\ <<1, "logic">> \in DOMAIN received
    /\ received[<<1, "logic">>].language = <<"p", "y">>
    /\ context.changes = <<"-", "a", "\n", "+", "x">>
    /\ context.changes # context.patch

-----------------------------------------------------------------------------
(* Properties of parse_diff *)

\* the indices of the file-section header lines among the first n lines
HeadersUpTo(n) == {i \in 1..n : StartsWith(lines[i], DiffGitPrefix)}

HeaderLines == HeadersUpTo(Len(lines))

\* the indices of the lines of the k-th file section after its header line: up
\* to the next header line or the end of the input
SectionBody(k) ==
    LET first == KthPosition(HeaderLines, k)
        last == IF k < Cardinality(HeaderLines)
                THEN KthPosition(HeaderLines, k + 1) - 1
                ELSE Len(lines)
    IN (first + 1)..last

\* the line starts with the marker but not with the marker three times
Marked(line, mark) ==
    /\ Len(line) >= 1 /\ line[1] = mark
    /\ ~(Len(line) >= 3 /\ line[2] = mark /\ line[3] = mark)

\* C8: every returned FileChange has additions equal to the number of lines of
\* its section that start with '+' but not '+++', and deletions equal to the
\* number that start with '-' but not '---'; no other line changes a count.
C8_Counts ==
    ppc = "done" =>
        \A k \in 1..Len(parsed) :
            /\ k <= Cardinality(HeaderLines)
            /\ parsed[k].additions
                 = Cardinality({i \in SectionBody(k) : Marked(lines[i], "+")})
            /\ parsed[k].deletions
                 = Cardinality({i \in SectionBody(k) : Marked(lines[i], "-")})

\* C8 witness: a returned section with an addition and a '+++' file-header line
C8_Witness ==
    /\ ppc = "done"
    /\ Len(parsed) = 1
    /\ parsed[1].additions = 1
    /\ \E i \in SectionBody(1) : StartsWith(lines[i], <<"+", "+", "+">>)

\* C9: parse_diff returns one FileChange per 'diff --git' line, the i-th for
\* the i-th header in input order; a section is flushed exactly once, by the
\* next header or by the end of the input.
C9_OnePerHeader ==
    /\ [](ppc \in {"scan", "done"} =>
            Len(parsed) + (IF ppc = "scan" /\ current_file # None THEN 1 ELSE 0)
                = Cardinality(HeadersUpTo(pos - 1)))
    /\ [](ppc = "done" =>
            \A k \in 1..Len(parsed) :
                parsed[k].filename = HeaderFilename(lines[KthPosition(HeaderLines, k)]))
    /\ [][/\ Len(parsed') \in {Len(parsed), Len(parsed) + 1}
          /\ SubSeq(parsed', 1, Len(parsed)) = parsed]_vars

\* C9 witness: two sections returned, the first flushed by the second header
\* and the second by the end of the input
C9_Witness ==
    /\ ppc = "done"
    /\ Len(parsed) = 2
    /\ parsed[1].filename # parsed[2].filename
    /\ parsed[1].additions = 1

\* C10: a text without a 'diff --git' line yields the empty list and no error.
C10_NoHeader ==
    HeaderLines = {} =>
        /\ ppc \in {"scan", "done"}
        /\ parsed = <<>>
        /\ current_file = None

\* C10 witness: a text of status, addition and deletion lines without a
\* header was scanned to the end
C10_Witness ==
    /\ ppc = "done"
    /\ HeaderLines = {}
    /\ parsed = <<>>
    /\ \E i \in 1..Len(lines) : LineKind(lines[i]) \in {"new_file", "deleted_file"}
    /\ \E i \in 1..Len(lines) : LineKind(lines[i]) \in {"addition", "deletion"}

\* the lines of the k-th file section after its header line, in input order
SectionLines(k) ==
    LET first == KthPosition(HeaderLines, k)
    IN [j \in 1..Cardinality(SectionBody(k)) |-> lines[first + j]]

\* the line announces the creation or the deletion of the file
StatusLine(line) ==
    StartsWith(line, NewFilePrefix) \/ StartsWith(line, DeletedFilePrefix)

\* C12 (as stated): the patch of every returned FileChange is, in order and
\* unmodified, the lines of its input section after the 'diff --git' line: no
\* body line is dropped, duplicated or reordered, and no line of another
\* section or from before the first header appears in it.
C12_RoundTrip ==
    ppc = "done" =>
        \A k \in 1..Len(parsed) :
            /\ k <= Cardinality(HeaderLines)
            /\ parsed[k].patch = Join(SectionLines(k))

\* C12 (amended): the patch of every returned FileChange is, in order and
\* unmodified, the lines of its input section after the 'diff --git' line
\* other than the lines that start with 'new file' or 'deleted file'; no other
\* line is dropped, none is duplicated or reordered, and no line of another
\* section or from before the first header appears in it.
C12_RoundTripKept ==
    ppc = "done" =>
        \A k \in 1..Len(parsed) :
            /\ k <= Cardinality(HeaderLines)
            /\ parsed[k].patch
                 = Join(SelectSeq(SectionLines(k), LAMBDA l : ~StatusLine(l)))

\* C12 witness: a returned section that held a status line and a body line
C12_Witness ==
    /\ ppc = "done"
    /\ Len(parsed) >= 1
    /\ \E k \in 1..Len(parsed) :
          /\ parsed[k].status \in {"added", "deleted"}
          /\ parsed[k].patch # <<>>

\* the last blank-separated token of a line
LastToken(line) ==
    LET blanks == {i \in 1..Len(line) : line[i] = " "}
    IN IF blanks = {} THEN line
       ELSE SubSeq(line, (CHOOSE i \in blanks : \A j \in blanks : j <= i) + 1, Len(line))

\* <new> of a header line 'diff --git a/<old> b/<new>': its post-image token
\* without the leading 'b/'; 'unknown' when the line has no such token
PostImagePath(line) ==
    LET token == LastToken(line)
    IN IF Len(token) > 2 /\ token[1] = "b" /\ token[2] = "/"
       THEN SubSeq(token, 3, Len(token))
       ELSE Unknown

\* C20: for every header line 'diff --git a/<old> b/<new>' the filename of the
\* FileChange parse_diff produces is exactly <new>, also for paths in which
\* 'b/' occurs inside a directory or file name; it is 'unknown' only when the
\* header has no post-image token.
C20_PostImageName ==
    ppc = "done" =>
        \A k \in 1..Len(parsed) :
            parsed[k].filename = PostImagePath(lines[KthPosition(HeaderLines, k)])

\* the status a line announces: added for 'new file', deleted for 'deleted file'
AnnouncedStatus(line) ==
    IF StartsWith(line, NewFilePrefix) THEN "added" ELSE "deleted"

\* C21: a line starting with 'new file' or 'deleted file' sets the status of
\* the section in progress to added or deleted without flushing it and without
\* changing its counts, its filename or the FileChanges already emitted; a
\* section with neither line has status modified; such a line before the
\* first file header has no effect.
C21_StatusFrame ==
    /\ [][(ppc = "scan" /\ pos <= Len(lines) /\ pos' = pos + 1
           /\ ~StartsWith(lines[pos], DiffGitPrefix) /\ StatusLine(lines[pos])) =>
             /\ parsed' = parsed
             /\ ppc' = "scan"
             /\ IF current_file = None
                THEN current_file' = None
                ELSE /\ current_file'.status = AnnouncedStatus(lines[pos])
                     /\ current_file'.additions = current_file.additions
                     /\ current_file'.deletions = current_file.deletions
                     /\ current_file'.filename = current_file.filename]_vars
    /\ [](ppc # "error")
    /\ [](ppc = "done" =>
            \A k \in 1..Len(parsed) :
                (\A i \in 1..Len(SectionLines(k)) : ~StatusLine(SectionLines(k)[i]))
                    => parsed[k].status = "modified")

\* C21 witness: a section with one counted line whose last line announces the
\* deletion was returned with status deleted and its count
C21_Witness ==
    /\ ppc = "done"
    /\ Len(lines) = 3
    /\ StartsWith(lines[3], DeletedFilePrefix)
    /\ Len(parsed) = 1
    /\ parsed[1].status = "deleted"
    /\ parsed[1].additions + parsed[1].deletions = 1

-----------------------------------------------------------------------------
(* Properties of extract_changed_lines *)

\* the positions where a '+' token that begins with a digit starts in a hunk
\* header '@@ -<pre-image range> +<post-image range> @@'
PostImageTokens(line) ==
    {i \in 2..(Len(line) - 1) :
        line[i - 1] = " " /\ line[i] = "+" /\ IsDigit(line[i + 1])}

\* the start of the post-image range of a hunk header: the digits of its '+'
\* token up to the comma, the blank or the end that closes them
PostImageStart(line) ==
    LET at == CHOOSE i \in PostImageTokens(line) :
                  \A j \in PostImageTokens(line) : i <= j
        stop == CHOOSE j \in (at + 1)..(Len(line) + 1) :
                    /\ \A k \in (at + 1)..(j - 1) : IsDigit(line[k])
                    /\ j = Len(line) + 1 \/ ~IsDigit(line[j])
    IN ToInt(SubSeq(line, at + 1, stop - 1))

\* the step of the claim for the line the loop is at
LineRule(line) ==
    LET emitted(type) ==
            /\ Len(changed_lines') = Len(changed_lines) + 1
            /\ SubSeq(changed_lines', 1, Len(changed_lines)) = changed_lines
            /\ changed_lines'[Len(changed_lines')].line_number = current_line_num
            /\ changed_lines'[Len(changed_lines')].type = type
            /\ changed_lines'[Len(changed_lines')].raw = line
    IN IF Len(line) >= 2 /\ line[1] = "@" /\ line[2] = "@"
       THEN /\ changed_lines' = changed_lines
            /\ current_line_num' = IF PostImageTokens(line) # {}
                                   THEN PostImageStart(line)
                                   ELSE current_line_num
       ELSE IF Marked(line, "+")
       THEN emitted("addition") /\ current_line_num' = current_line_num + 1
       ELSE IF Marked(line, "-")
       THEN emitted("deletion") /\ current_line_num' = current_line_num
       ELSE IF Len(line) >= 1 /\ line[1] = "\\"
       THEN changed_lines' = changed_lines /\ current_line_num' = current_line_num
       ELSE changed_lines' = changed_lines /\ current_line_num' = current_line_num + 1

\* the patch of the example: '@@ -1,2 +10,3 @@', a context line, '+added', '-deleted'
ExamplePatch ==
    <<<<"@", "@", " ", "-", "1", ",", "2", " ", "+", "1", "0", ",", "3", " ", "@", "@">>,
      <<" ", "c">>,
      <<"+", "a", "d", "d", "e", "d">>,
      <<"-", "d", "e", "l", "e", "t", "e", "d">>>>

\* C11: extract_changed_lines numbers lines in one pass: a '@@' line sets the
\* counter to the start of its post-image range (or keeps it when the header
\* carries none) and emits nothing; an addition is emitted at the counter and
\* advances it; a deletion is emitted at the counter and does not; a line
\* starting with a backslash is skipped; every other line advances the counter
\* without being emitted. In the example the addition is at 11, the deletion at 12.
C11_LineNumbers ==
    /\ [][epos' = epos + 1 => LineRule(elines[epos])]_vars
    /\ [][epos' = epos => changed_lines' = changed_lines
                          /\ current_line_num' = current_line_num]_vars
    /\ []((epc = "done" /\ elines = ExamplePatch) =>
            /\ Len(changed_lines) = 2
            /\ changed_lines[1].type = "addition" /\ changed_lines[1].line_number = 11
            /\ changed_lines[2].type = "deletion" /\ changed_lines[2].line_number = 12)

\* C11 witness: the example patch was scanned to the end
C11_Witness ==
    /\ epc = "done"
    /\ elines = ExamplePatch
    /\ changed_lines[1].line_number = 11
    /\ changed_lines[2].line_number = 12

-----------------------------------------------------------------------------
(* Properties of group_changes_by_function *)

\* the positions of the lines of the patch that match the function-head
\* pattern of the language, in order
HeadPositions ==
    SelectSeq([i \in 1..Len(flines) |-> i],
              LAMBDA i : HeadMatch(language, flines[i]) # None)

\* an addition or deletion line: '+' or '-' in front, the '+++' and '---'
\* file headers excepted
IsChangeLine(l) ==
    \/ StartsWith(l, <<"+">>) /\ ~StartsWith(l, <<"+", "+", "+">>)
    \/ StartsWith(l, <<"-">>) /\ ~StartsWith(l, <<"-", "-", "-">>)

\* the addition and deletion lines after the k-th head line and before the
\* next head line
ChangesAfterHead(k) ==
    LET heads == HeadPositions
        from == heads[k] + 1
        to == IF k < Len(heads) THEN heads[k + 1] - 1 ELSE Len(flines)
    IN SelectSeq(SubSeq(flines, from, to), IsChangeLine)

\* C27: group_changes_by_function ends without error; for a language outside
\* the table it returns the empty list; for a recognized language it returns
\* one group per line matching the function-head pattern, in order of
\* appearance, and the changes of each group are exactly the addition and
\* deletion lines after its head line and before the next matching line
\* (those before the first match are in no group).
C27_GroupContents ==
    /\ fpc # "error"
    /\ fpc = "done" =>
          IF language \notin Recognized THEN functions = <<>>
          ELSE /\ Len(functions) = Len(HeadPositions)
               /\ \A k \in 1..Len(functions) :
                     /\ functions[k].name = HeadMatch(language, flines[HeadPositions[k]]).group1
                     /\ functions[k].changes = ChangesAfterHead(k)

-----------------------------------------------------------------------------
(* Properties of parse_diff and extract_changed_lines together *)

\* the positions of the addition and deletion lines of a patch text, in order
ChangePositions(text) ==
    SelectSeq([i \in 1..Len(Split(text)) |-> i],
              LAMBDA i : IsChangeLine(Split(text)[i]))

\* a hunk header stands between the positions a and b of a patch text
HunkBetween(text, a, b) ==
    \E h \in (a + 1)..(b - 1) : StartsWith(Split(text)[h], <<"@", "@">>)

\* C29: for every FileChange f that parse_diff returns,
\* extract_changed_lines(f.patch) yields exactly f.additions entries of type
\* addition and f.deletions entries of type deletion, in the order of those
\* lines in the patch, and the line numbers it assigns never decrease between
\* two hunk headers.
C29_CountsAgree ==
    ppc = "done" =>
        \A k \in 1..Len(parsed) :
            LET f == parsed[k]
                entries == ExtractChangedLines(f.patch)
                at == ChangePositions(f.patch)
            IN /\ Cardinality({i \in 1..Len(entries) : entries[i].type = "addition"})
                     = f.additions
               /\ Cardinality({i \in 1..Len(entries) : entries[i].type = "deletion"})
                     = f.deletions
               /\ Len(entries) = Len(at)
               /\ \A i \in 1..Len(entries) :
                     /\ entries[i].raw = Split(f.patch)[at[i]]
                     /\ entries[i].type =
                           IF entries[i].raw[1] = "+" THEN "addition" ELSE "deletion"
               /\ \A i, j \in 1..Len(entries) :
                     (i < j /\ ~HunkBetween(f.patch, at[i], at[j])) =>
                         entries[i].line_number <= entries[j].line_number

\* C29 witness: parse_diff returned a file with one addition and one deletion
\* and extract_changed_lines yields these two lines from its patch, in order
C29_Witness ==
    /\ ppc = "done"
    /\ \E k \in 1..Len(parsed) :
          /\ parsed[k].additions = 1
          /\ parsed[k].deletions = 1
          /\ Len(ExtractChangedLines(parsed[k].patch)) = 2
          /\ ExtractChangedLines(parsed[k].patch)[1].type = "deletion"
          /\ ExtractChangedLines(parsed[k].patch)[2].type = "addition"

-----------------------------------------------------------------------------
(* Properties of parse_review_text *)

\* line i of the report, stripped
ReportLine(i) == Strip(rlines[i])

IsSectionHeader(i) ==
    ReportLine(i) # <<>> /\ FirstPrefix(SectionHeaders, ReportLine(i)) # None

\* line i of the report lies inside a '## Critical Blockers' section
InBlockers(i) ==
    /\ ~IsSectionHeader(i)
    /\ \E h \in 1..(i - 1) :
          /\ StartsWith(ReportLine(h), <<"#", "#", " ", "C", "r", "i", "t", "i", "c", "a", "l",
                                         " ", "B", "l", "o", "c", "k", "e", "r", "s">>)
          /\ \A m \in (h + 1)..(i - 1) : ~IsSectionHeader(m)

\* the positions of the '- File:' lines inside the Critical Blockers section
FileLines ==
    SelectSeq([i \in 1..Len(rlines) |-> i],
              LAMBDA i : InBlockers(i) /\ StartsWith(ReportLine(i), FilePrefix))

\* the positions of the lines with the prefix of a detail key that follow
\* the k-th '- File:' line, up to the next one
DetailLines(k, key) ==
    LET to == IF k < Len(FileLines) THEN FileLines[k + 1] - 1 ELSE Len(rlines)
    IN {i \in (FileLines[k] + 1)..to :
           /\ InBlockers(i)
           /\ FirstPrefix(BlockerKeys, ReportLine(i)) # None
           /\ FirstPrefix(BlockerKeys, ReportLine(i)).key = key}

\* C30: the returned critical_blockers has one entry per '- File:' line
\* inside the '## Critical Blockers' section, in order, each carrying the
\* Issue, Code Snippet, Recommendation and Reasoning lines that follow its
\* '- File:' line, whichever sections follow the Critical Blockers section.
C30_BlockerPerFileLine ==
    rpc = "done" =>
        /\ Len(sections.critical_blockers) = Len(FileLines)
        /\ \A k \in 1..Len(FileLines) :
              k <= Len(sections.critical_blockers) =>
                 LET entry == sections.critical_blockers[k]
                 IN /\ "file" \in DOMAIN entry
                    /\ entry.file = AfterColon(ReportLine(FileLines[k]))
                    /\ \A key \in {"issue", "code_snippet", "recommendation", "reasoning"} :
                          IF DetailLines(k, key) = {} THEN key \notin DOMAIN entry
                          ELSE /\ key \in DOMAIN entry
                               /\ entry[key] = AfterColon(ReportLine(
                                     CHOOSE i \in DetailLines(k, key) :
                                         \A j \in DetailLines(k, key) : j <= i))

-----------------------------------------------------------------------------
(* Properties of the asynchronous review jobs *)

\* the stored entry of a job is final: 'completed' with a result, or 'failed'
\* with an error
FinalEntry(entry) ==
    \/ entry.status = "completed" /\ DOMAIN entry = {"status", "result"}
    \/ entry.status = "failed" /\ DOMAIN entry = {"status", "error"}

\* C28: a job created by POST /review/async has the stored status 'processing'
\* from its creation until its background task ends; once the task has ended,
\* however its try block ended, the entry is 'completed' with a result or
\* 'failed' with an error and never changes again; a background task writes
\* the entry of its own job id only.
C28_JobLifecycle ==
    /\ [](\A j \in DOMAIN review_results :
             /\ j \in DOMAIN task
             /\ task[j].pc # "ended" => review_results[j] = [status |-> "processing"]
             /\ task[j].pc = "ended" => FinalEntry(review_results[j]))
    /\ [][\A j \in DOMAIN review_results :
             /\ j \in DOMAIN review_results'
             /\ review_results'[j] # review_results[j] =>
                   /\ task[j].pc = "running" /\ task'[j].pc = "ended"
                   /\ review_results[j].status = "processing"
                   /\ FinalEntry(review_results'[j])
             /\ FinalEntry(review_results[j]) => review_results'[j] = review_results[j]]_vars

\* C28 witness: of three jobs, one ended 'completed', one ended 'failed' after
\* an exception, and one is still processing while its task runs
C28_Witness ==
    /\ \E j \in DOMAIN review_results :
          task[j].pc = "ended" /\ review_results[j].status = "completed"
    /\ \E j \in DOMAIN review_results :
          /\ task[j].pc = "ended" /\ task[j].outcome = "raised"
          /\ review_results[j].status = "failed"
    /\ \E j \in DOMAIN review_results :
          task[j].pc = "running" /\ review_results[j].status = "processing"

-----------------------------------------------------------------------------
(* Properties of the entry points of review_pr *)

\* C19: every FileChange that reaches review_pr, from parse_diff or from
\* fetch_pr_files, has status added, modified or deleted, so that every file
\* whose change is a removal is skipped by the status == 'deleted' test.
C19_StatusDomain ==
    pc # "idle" =>
        /\ \A i \in 1..Len(files) : files[i].status \in {"added", "modified", "deleted"}
        /\ pc = "fanout" => Get(files_data.value[idx], "status", "absent") # "removed"

=============================================================================
